---- MODULE Spec2Model ----
(***************************************************************************)
(* A model of the content-defined chunking engine (none.hash.cdc.fastcdc)  *)
(* and of the Merkle hash tree (none.hash.tree) of the "none" library.     *)
(*                                                                         *)
(* Representation.                                                         *)
(*  - A byte string is a sequence of byte values.  Python's zero-based     *)
(*    half-open slice data[a:b] is Slice(data, a, b).                      *)
(*  - A 64-bit unsigned integer is a tuple of four 16-bit limbs, most      *)
(*    significant limb first, so 0x0003590703530000 is                     *)
(*    <<\h0003, \h5907, \h0353, \h0000>>.  Python's unbounded intermediate *)
(*    (h << 1) + gear is a tuple of five limbs.                            *)
(*  - An optional value is None (the empty tuple) or Some(v).              *)
(*  - The chunk-size thresholds GHASH_CHUNK_LO/MD/HI are module globals    *)
(*    the code only compares lengths and indices with.  They are scaled    *)
(*    from 2 KiB / 8 KiB / 64 KiB to MinChunk / AvgChunk / MaxChunk so     *)
(*    that every window of up to GHASH_CHUNK_HI bytes can be enumerated.   *)
(***************************************************************************)
EXTENDS Integers, Sequences, FiniteSets, TLC

VARIABLES
    data,       \* the byte content given to split / served by the stream
    seed,       \* the optional gear seed: None or Some(word)
    ck_start,   \* split: chunk start index
    ck_end,     \* split: chunk end index
    ct_idx,     \* split: current cutting index
    chunks,     \* split: the chunks yielded so far
    win,        \* the window the last find call was given
    cut,        \* the value the last find call returned, -1 before any
    h,          \* ghash chain: the rolling hash value
    h0,         \* ghash chain: the value the chain started from
    fed,        \* ghash chain: number of bytes of data rolled in
    pos,        \* stream: offset of the next unread byte
    remain,     \* fastcdc: data remaining from the chunking process
    buflen,     \* fastcdc: len(buffer), the size of the next readinto
    st_idx,     \* fastcdc: current position in the binary stream
    out,        \* fastcdc: the chunks yielded so far
    short,      \* some readinto call returned fewer bytes than it could
    fpc,        \* fastcdc: "reading" in the loop, "done" once exhausted
    _hash,      \* Merkle: what the tree's template hash object has absorbed
    _leaves,    \* Merkle: the deque of leaf digests
    payloads,   \* the payloads given so far, kept as a plain list would
    ret,        \* Merkle: what the last call returned: None or Some(bytes)
    exc,        \* Merkle: the exception the last call raised, "" for none
    last,       \* Merkle: the last call, [op |-> name, i |-> index given]
    shrunk,     \* Merkle: some call has removed a leaf
    arg,        \* Merkle: the data the last call was given, None if none
    twin,       \* Merkle: a second tree, None until one exists
    instance,   \* Merkle: the tree whose _hash is a hash object the caller holds:
                \* "self", "twin", "gone" for a tree out of reach, "" for none
    is_async,   \* task: whether the task is an AsyncTask
    ignore_exc, \* task: the exception types a run takes for a success
    raise_exc,  \* task: whether a run lets exceptions through
    pc,         \* task: the statement of run that comes next
    events,     \* task: the events fired so far, __call__ among them
    excs,       \* task: run's local list exc
    raising,    \* task: the exception in flight, None if none
    inhibited,  \* task: on_failure has set raise_exc to False
    outs,       \* task: what each event fired did: None, or Some(type raised)
    batch_data, \* batch: the elements the data generator gives, in order
    batch_size, \* batch: None, or Some(most elements given to a task)
    batch_raise_exc, \* batch: whether the batch lets exceptions through
    _batch_suffix,   \* batch: Some(index of the unit that runs), else None
    bpc,        \* batch: the statement of Batch.run that comes next
    bidx,       \* batch: the number of the unit the loop is at, from 1
    bevents,    \* batch: the batch events fired so far
    bouts,      \* batch: what each batch event did
    bexcs,      \* batch: Batch.run's local list exc
    braising,   \* batch: the exception in flight in Batch.run
    runs,       \* batch: each task run made: what it was given and raised
    hanging,    \* hook: the catches hanging to the hook my_hook
    _owner,     \* hook: the owner each hook and catch was last bound to
    executed,   \* hook: what the last call of my_hook ran, and with what self
    calls,      \* hook: the instances my_hook was called on so far
    attempts,   \* retry: the attempts argument
    exception,  \* retry: the exception types listed
    loop_i,     \* retry: how many values of self._loop the wrapper has used
    _exc,       \* retry: the wrapper's local _exc, None or Some(exception)
    invocations, \* retry: what each invocation of fn did
    rpc,        \* retry: "loop", "after" the loop, or "done"
    result,     \* retry: what the wrapper returned or raised
    iterable,   \* xlast, onexlast: the elements of the iterable given
    kind,       \* which iterator class is at work
    source,     \* the elements the underlying iterator has not given yet
    onexlast_next, \* onexlast._next: None for missing, or Some(element)
    xlast_next, \* xlast._next: None for missing, or Some(element)
    returned,   \* the elements __next__ has returned so far
    stopped,    \* __next__ has raised StopIteration
    nested,     \* a.onexlast: _next of each further xlast made around the
                \* first one, innermost first
    inflight,   \* a.xlast, a.onexlast: the calls of __anext__ suspended in
                \* await next(...): the frames of each, innermost first
    overlapped, \* a call of __anext__ began while another was suspended
    tasks,      \* AsyncBatch: the futures of the units, in the order made
    suspends,   \* AsyncBatch: whether the data source awaits before an item
    completed,  \* AsyncBatch: the units whose future is done, in that order
    done,       \* AsyncBatch: the queue of asyncio.as_completed
    ready,      \* AsyncBatch: what the event loop is to run, the oldest first
    current_task, \* AsyncBatch: the coroutine that runs, None when none does
    scheduled,  \* asynchook: the catch coroutines made and not yet started
    coros       \* asynchook: where the coroutine of each call of the hook is

cdcVars == <<data, seed, ck_start, ck_end, ct_idx, chunks, win, cut, h, h0,
             fed, pos, remain, buflen, st_idx, out, short, fpc>>

merkleVars == <<_hash, _leaves, payloads, ret, exc, last, shrunk, arg, twin,
                instance>>

taskVars == <<is_async, ignore_exc, raise_exc, pc, events, excs, raising,
              inhibited, outs>>

batchVars == <<batch_data, batch_size, batch_raise_exc, _batch_suffix, bpc,
               bidx, bevents, bouts, bexcs, braising, runs>>

hookVars == <<hanging, _owner, executed, calls>>

retryVars == <<attempts, exception, loop_i, _exc, invocations, rpc, result>>

callableVars == <<hookVars, retryVars>>

iterVars == <<iterable, kind, source, onexlast_next, xlast_next, returned,
              stopped, nested, inflight, overlapped>>

loopVars == <<tasks, suspends, completed, done, ready, current_task>>

asyncVars == <<loopVars, scheduled, coros>>

vars == <<cdcVars, merkleVars, taskVars, batchVars, callableVars, iterVars, asyncVars>>

----------------------------------------------------------------------------
(* Bounds of the model *)

\* GHASH_CHUNK_LO, scaled
MinChunk == 2
\* GHASH_CHUNK_MD, scaled
AvgChunk == 4
\* GHASH_CHUNK_HI, scaled
MaxChunk == 6
\* the longest content
MaxLen == 7
\* the most leaves a tree is grown to
MaxLeaves == 5
\* the longest iterable given to the constructor or to extend
MaxIter == 2
MaxPair == 4
\* the most elements the data of a batch gives
MaxData == 2

----------------------------------------------------------------------------
(* Python values *)

None == <<>>
Some(v) == <<v>>

Min(a, b) == IF a < b THEN a ELSE b

\* data[a:b] for 0 <= a, 0 <= b
Slice(s, a, b) == SubSeq(s, a + 1, Min(b, Len(s)))

----------------------------------------------------------------------------
(* 64-bit integers as four 16-bit limbs, most significant first *)

LimbBase == 2 ^ 16

RECURSIVE BitAnd(_, _)
BitAnd(a, b) ==
    IF a = 0 \/ b = 0 THEN 0
    ELSE (a % 2) * (b % 2) + 2 * BitAnd(a \div 2, b \div 2)

RECURSIVE BitXor(_, _)
BitXor(a, b) ==
    IF a = 0 THEN b
    ELSE IF b = 0 THEN a
    ELSE ((a + b) % 2) + 2 * BitXor(a \div 2, b \div 2)

\* a & b on words
WordAnd(a, b) == [i \in 1..4 |-> BitAnd(a[i], b[i])]

\* a ^ b on words
WordXor(a, b) == [i \in 1..4 |-> BitXor(a[i], b[i])]

Zero64 == <<0, 0, 0, 0>>

\* h << 1 as an unbounded integer: five limbs
Shl1(w) ==
    LET d4 == 2 * w[4]
        d3 == 2 * w[3] + d4 \div LimbBase
        d2 == 2 * w[2] + d3 \div LimbBase
        d1 == 2 * w[1] + d2 \div LimbBase
    IN  <<d1 \div LimbBase, d1 % LimbBase, d2 % LimbBase, d3 % LimbBase,
          d4 % LimbBase>>

\* wide + g as an unbounded integer: wide has five limbs, g is a word
WideAdd(wide, g) ==
    LET s5 == wide[5] + g[4]
        s4 == wide[4] + g[3] + s5 \div LimbBase
        s3 == wide[3] + g[2] + s4 \div LimbBase
        s2 == wide[2] + g[1] + s3 \div LimbBase
        s1 == wide[1] + s2 \div LimbBase
    IN  <<s1, s2 % LimbBase, s3 % LimbBase, s4 % LimbBase, s5 % LimbBase>>

\* wide & 0xFFFFFFFFFFFFFFFF: the four low limbs, the carry limb dropped
Mask64(wide) == <<wide[2], wide[3], wide[4], wide[5]>>

----------------------------------------------------------------------------
(* none.hash.cdc.fastcdc: constants *)

GHASH_CHUNK_LO == MinChunk
GHASH_CHUNK_MD == AvgChunk
GHASH_CHUNK_HI == MaxChunk

GHASH_MASK_LO == <<\h0003, \h5907, \h0353, \h0000>>
GHASH_MASK_HI == <<\h0000, \hD900, \h0353, \h0000>>

(* The inputs: byte contents over a two-letter alphabet, a caller-supplied  *)
(* gear table and an optional seed.  The gear values of the two letters     *)
(* make the rolling hash meet both masks, miss both, and meet one but not   *)
(* the other, within GHASH_CHUNK_HI bytes; bit 63 of the first overflows on *)
(* the shift.                                                               *)
Alphabet == {0, 1}

GearTable ==
    [b \in 0..255 |->
        IF b = 0 THEN <<\h8000, \h8000, \h0000, \h0000>>
        ELSE IF b = 1 THEN <<\h0001, \h6000, \h0000, \h0000>>
        ELSE <<b, b, b, b>>]

GearSeed == <<\h0001, \h0000, \h0000, \h0C40>>

Seeds == {None, Some(GearSeed)}

Contents == UNION {[1..n -> Alphabet] : n \in 0..MaxLen}

----------------------------------------------------------------------------
(* none.hash.cdc.fastcdc: ghash, find, split *)

\* ghash with the seed left out of the gear value
ghashUnseeded(hv, ch, ghash_table, sd) ==
    Mask64(WideAdd(Shl1(hv), ghash_table[ch]))

ghash(hv, ch, ghash_table, sd) ==
    LET gear == IF sd = None THEN ghash_table[ch]
                ELSE WordXor(ghash_table[ch], sd[1])
    IN  Mask64(WideAdd(Shl1(hv), gear))

(* The two while loops of find.  phases is the list of (sentinel, mask)    *)
(* pairs still to run; the result is the returned index with the hash      *)
(* value the loops ended on.                                               *)
RECURSIVE FindScan(_, _, _, _, _, _)
FindScan(d, phases, idx, hv, ghash_table, sd) ==
    IF phases = <<>> THEN [ret |-> idx, hash |-> hv]
    ELSE IF idx < Head(phases)[1]
    THEN LET h2 == ghash(hv, d[idx + 1], ghash_table, sd)
         IN  IF WordAnd(h2, Head(phases)[2]) = Zero64
             THEN [ret |-> idx, hash |-> h2]
             ELSE FindScan(d, phases, idx + 1, h2, ghash_table, sd)
    ELSE FindScan(d, Tail(phases), idx, hv, ghash_table, sd)

\* the sentinels of find with the low mask kept for the second loop
FindPhasesOneMask(d) ==
    LET data_size == Len(d)
        sentinel_hi == IF data_size >= GHASH_CHUNK_HI THEN GHASH_CHUNK_HI
                       ELSE data_size
        sentinel_md == IF data_size >= GHASH_CHUNK_HI THEN GHASH_CHUNK_MD
                       ELSE IF data_size <= GHASH_CHUNK_MD THEN data_size
                       ELSE GHASH_CHUNK_MD
    IN  <<<<sentinel_md, GHASH_MASK_LO>>, <<sentinel_hi, GHASH_MASK_LO>>>>

\* the (sentinel, mask) pairs find iterates over for data of this size
FindPhases(d) ==
    LET data_size == Len(d)
        sentinel_hi == IF data_size >= GHASH_CHUNK_HI THEN GHASH_CHUNK_HI
                       ELSE data_size
        sentinel_md == IF data_size >= GHASH_CHUNK_HI THEN GHASH_CHUNK_MD
                       ELSE IF data_size <= GHASH_CHUNK_MD THEN data_size
                       ELSE GHASH_CHUNK_MD
    IN  <<<<sentinel_md, GHASH_MASK_LO>>, <<sentinel_hi, GHASH_MASK_HI>>>>

\* find with the index started one byte below the minimum chunk size
findEarly(d, ghash_table, sd) ==
    IF Len(d) <= GHASH_CHUNK_LO THEN Len(d)
    ELSE FindScan(d, FindPhases(d), GHASH_CHUNK_LO - 1, Zero64, ghash_table,
                  sd).ret

find(d, ghash_table, sd) ==
    IF Len(d) <= GHASH_CHUNK_LO THEN Len(d)
    ELSE FindScan(d, FindPhases(d), GHASH_CHUNK_LO, Zero64, ghash_table,
                  sd).ret

\* one iteration of split yielding the whole window as the chunk data
SplitIterWindow(d, start, ct, ghash_table, sd) ==
    LET window == Slice(d, start, ct)
        found == find(window, ghash_table, sd)
        end == start + found
    IN  [win |-> window, cut |-> found,
         chunk |-> <<start, end, window>>,
         ck_start |-> end, ck_end |-> end,
         ct_idx |-> Min(end + GHASH_CHUNK_HI, Len(d))]

(* One iteration of split's loop from (ck_start, ct_idx): the window given *)
(* to find, the value find returned, the chunk yielded and the loop        *)
(* variables after the iteration.                                          *)
SplitIter(d, start, ct, ghash_table, sd) ==
    LET window == Slice(d, start, ct)
        found == find(window, ghash_table, sd)
        end == start + found
    IN  [win |-> window, cut |-> found,
         chunk |-> <<start, end, Slice(d, start, end)>>,
         ck_start |-> end, ck_end |-> end,
         ct_idx |-> Min(end + GHASH_CHUNK_HI, Len(d))]

RECURSIVE SplitLoop(_, _, _, _, _, _)
SplitLoop(d, start, end, ct, ghash_table, sd) ==
    IF ct = end THEN <<>>
    ELSE LET it == SplitIter(d, start, ct, ghash_table, sd)
         IN  <<it.chunk>> \o SplitLoop(d, it.ck_start, it.ck_end, it.ct_idx,
                                       ghash_table, sd)

\* the sequence of chunks the generator split(data) yields
split(d, ghash_table, sd) ==
    SplitLoop(d, 0, 0, GHASH_CHUNK_HI, ghash_table, sd)

----------------------------------------------------------------------------
(* none.collection.i: xlast, onexlast, as the sequence the iterator yields *)

\* every element but the last: the look-ahead raises StopIteration first
xlast(s) == IF s = <<>> THEN <<>> ELSE SubSeq(s, 1, Len(s) - 1)

\* onexlast taken for xlast: the last element dropped, even when alone
onexlastAsXlast(s) == xlast(s)

\* the first element, then xlast of the rest
onexlast(s) == IF s = <<>> THEN <<>> ELSE <<Head(s)>> \o xlast(Tail(s))

----------------------------------------------------------------------------
(* The split generator, one loop iteration at a time *)

SplitIdle ==
    /\ ck_start = 0 /\ ck_end = 0 /\ ct_idx = GHASH_CHUNK_HI
    /\ chunks = <<>> /\ win = <<>> /\ cut = -1

GhashIdle == h = Zero64 /\ h0 = Zero64 /\ fed = 0

FastcdcIdle ==
    /\ pos = 0 /\ remain = <<>> /\ buflen = GHASH_CHUNK_HI /\ st_idx = 0
    /\ out = <<>> /\ short = FALSE /\ fpc = "reading"

MerkleIdle ==
    /\ _hash = <<>> /\ _leaves = <<>> /\ payloads = <<>> /\ ret = <<>>
    /\ exc = "" /\ last = [op |-> "__init__", i |-> <<>>] /\ shrunk = FALSE
    /\ arg = <<>> /\ twin = <<>> /\ instance = ""

\* no task exists
TaskIdle ==
    /\ is_async = FALSE /\ ignore_exc = {} /\ raise_exc = FALSE
    /\ pc = "" /\ events = <<>> /\ excs = <<>> /\ raising = <<>>
    /\ inhibited = FALSE /\ outs = <<>>

BatchIdle ==
    /\ batch_data = <<>> /\ batch_size = None /\ batch_raise_exc = FALSE
    /\ _batch_suffix = None /\ bpc = "" /\ bidx = 0
    /\ bevents = <<>> /\ bouts = <<>> /\ bexcs = <<>> /\ braising = None
    /\ runs = <<>>

HookIdle ==
    /\ hanging = {} /\ _owner = <<>> /\ executed = <<>> /\ calls = <<>>

RetryIdle ==
    /\ attempts = 0 /\ exception = {} /\ loop_i = 0 /\ _exc = None
    /\ invocations = <<>> /\ rpc = "" /\ result = None

IterIdle ==
    /\ iterable = <<>> /\ kind = "" /\ source = <<>>
    /\ onexlast_next = None /\ xlast_next = None /\ returned = <<>>
    /\ stopped = FALSE
    /\ nested = <<>> /\ inflight = <<>> /\ overlapped = FALSE

\* no coroutine was scheduled
AsyncIdle ==
    /\ tasks = <<>> /\ suspends = FALSE /\ completed = <<>>
    /\ done = <<>> /\ ready = <<>> /\ current_task = None
    /\ scheduled = <<>> /\ coros = <<>>

\* nothing but the modelled part is at work
Idle == HookIdle /\ RetryIdle /\ IterIdle /\ AsyncIdle

splitVars == <<ck_start, ck_end, ct_idx, chunks, win, cut>>
ghashVars == <<h, h0, fed>>
fastcdcVars == <<pos, remain, buflen, st_idx, out, short, fpc>>

InitSplit ==
    /\ data \in Contents
    /\ seed \in Seeds
    /\ SplitIdle /\ GhashIdle /\ FastcdcIdle /\ MerkleIdle /\ TaskIdle
    /\ BatchIdle /\ Idle

\* the loop with the start offset left where it was after the yield
SplitNextStalls ==
    /\ ct_idx # ck_end
    /\ LET it == SplitIter(data, ck_start, ct_idx, GearTable, seed)
       IN  /\ win' = it.win
           /\ cut' = it.cut
           /\ chunks' = Append(chunks, it.chunk)
           /\ ck_start' = ck_start
           /\ ck_end' = it.ck_end
           /\ ct_idx' = it.ct_idx
    /\ UNCHANGED <<data, seed, ghashVars, fastcdcVars, merkleVars, taskVars,
                   batchVars, callableVars, iterVars, asyncVars>>

\* the loop left only once a zero-length slice was yielded
SplitNextTrailing ==
    /\ \/ ct_idx # ck_end
       \/ /\ chunks # <<>>
          /\ chunks[Len(chunks)][2] > chunks[Len(chunks)][1]
    /\ LET it == SplitIter(data, ck_start, ct_idx, GearTable, seed)
       IN  /\ win' = it.win
           /\ cut' = it.cut
           /\ chunks' = Append(chunks, it.chunk)
           /\ ck_start' = it.ck_start
           /\ ck_end' = it.ck_end
           /\ ct_idx' = it.ct_idx
    /\ UNCHANGED <<data, seed, ghashVars, fastcdcVars, merkleVars, taskVars,
                   batchVars, callableVars, iterVars, asyncVars>>

\* while ct_idx != ck_end: find, yield, advance
SplitNext ==
    /\ ct_idx # ck_end
    /\ LET it == SplitIter(data, ck_start, ct_idx, GearTable, seed)
       IN  /\ win' = it.win
           /\ cut' = it.cut
           /\ chunks' = Append(chunks, it.chunk)
           /\ ck_start' = it.ck_start
           /\ ck_end' = it.ck_end
           /\ ct_idx' = it.ct_idx
    /\ UNCHANGED <<data, seed, ghashVars, fastcdcVars, merkleVars, taskVars,
                   batchVars, callableVars, iterVars, asyncVars>>

SplitDone == ct_idx = ck_end

NextSplit == SplitNext

SpecSplit == InitSplit /\ [][NextSplit]_vars

----------------------------------------------------------------------------
(* find called once on the whole of data *)

InitFind == InitSplit

FindCall ==
    /\ cut = -1
    /\ win' = data
    /\ cut' = find(data, GearTable, seed)
    /\ UNCHANGED <<data, seed, ck_start, ck_end, ct_idx, chunks, ghashVars,
                   fastcdcVars, merkleVars, taskVars,
                   batchVars, callableVars, iterVars, asyncVars>>

NextFind == FindCall

SpecFind == InitFind /\ [][NextFind]_vars

----------------------------------------------------------------------------
(* ghash chained over the bytes of data *)

\* starting values: 0 as find starts, and values with the top bits set
StartValues ==
    {Zero64, <<\hFFFF, \hFFFF, \hFFFF, \hFFFF>>,
     <<\h8000, \h0000, \h7FFF, \hFFFF>>}

InitGhash ==
    /\ data \in Contents
    /\ seed \in Seeds
    /\ h0 \in StartValues
    /\ h = h0
    /\ fed = 0
    /\ SplitIdle /\ FastcdcIdle /\ MerkleIdle /\ TaskIdle
    /\ BatchIdle /\ Idle

GhashRoll ==
    /\ fed < Len(data)
    /\ h' = ghash(h, data[fed + 1], GearTable, seed)
    /\ fed' = fed + 1
    /\ UNCHANGED <<data, seed, h0, splitVars, fastcdcVars, merkleVars,
                   taskVars, batchVars, callableVars, iterVars, asyncVars>>

NextGhash == GhashRoll

SpecGhash == InitGhash /\ [][NextGhash]_vars

----------------------------------------------------------------------------
(* fastcdc over a stream serving data: one loop iteration per action *)

\* the chunks with the offsets left relative to the buffer
ShiftedUnraised(cks, base) == cks

\* the chunks of split(buf) with the offsets raised by the stream index
Shifted(cks, base) ==
    [i \in 1..Len(cks) |-> <<base + cks[i][1], base + cks[i][2], cks[i][3]>>]

\* the chunks one iteration yields from the working buffer buffer[:bf_end]
Withheld(working, ghash_table, sd) == onexlast(split(working, ghash_table, sd))

InitFastcdc ==
    /\ data \in Contents
    /\ seed \in Seeds
    /\ SplitIdle /\ GhashIdle /\ FastcdcIdle /\ MerkleIdle /\ TaskIdle
    /\ BatchIdle /\ Idle

\* readinto returned n > 0 bytes: chop the buffer, keep the last chunk aside
FastcdcRead(n) ==
    /\ fpc = "reading"
    /\ n \in 1..Min(buflen, Len(data) - pos)
    /\ LET read_bytes == n
           bf_end == read_bytes + Len(remain)
           working == remain \o Slice(data, pos, pos + read_bytes)
           yielded == Withheld(working, GearTable, seed)
           ck_idx == IF yielded = <<>> THEN 0
                     ELSE yielded[Len(yielded)][2]
           kept == Slice(working, ck_idx, bf_end)
       IN  /\ out' = out \o Shifted(yielded, st_idx)
           /\ remain' = kept
           /\ buflen' = GHASH_CHUNK_HI - Len(kept)
           /\ st_idx' = st_idx + ck_idx
    /\ pos' = pos + n
    /\ short' = (short \/ n < Min(buflen, Len(data) - pos))
    /\ UNCHANGED <<data, seed, fpc, splitVars, ghashVars, merkleVars,
                   taskVars, batchVars, callableVars, iterVars, asyncVars>>

\* the final split made without looking whether bytes remain
FastcdcEofUnguarded ==
    /\ fpc = "reading"
    /\ pos = Len(data) \/ buflen = 0
    /\ out' = out \o Shifted(split(remain, GearTable, seed), st_idx)
    /\ fpc' = "done"
    /\ UNCHANGED <<data, seed, pos, remain, buflen, st_idx, short,
                   splitVars, ghashVars, merkleVars, taskVars,
                   batchVars, callableVars, iterVars, asyncVars>>

\* readinto returned 0 (end of stream, or an empty buffer): chop what remains
FastcdcEof ==
    /\ fpc = "reading"
    /\ pos = Len(data) \/ buflen = 0
    /\ out' = IF remain # <<>>
              THEN out \o Shifted(split(remain, GearTable, seed), st_idx)
              ELSE out
    /\ fpc' = "done"
    /\ UNCHANGED <<data, seed, pos, remain, buflen, st_idx, short,
                   splitVars, ghashVars, merkleVars, taskVars,
                   batchVars, callableVars, iterVars, asyncVars>>

NextFastcdc == (\E n \in 1..GHASH_CHUNK_HI : FastcdcRead(n)) \/ FastcdcEof

SpecFastcdc == InitFastcdc /\ [][NextFastcdc]_vars

----------------------------------------------------------------------------
(* Properties of the chunking engine *)

Boundaries(cks) == [i \in 1..Len(cks) |-> <<cks[i][1], cks[i][2]>>]

RECURSIVE Concat(_)
Concat(cks) == IF cks = <<>> THEN <<>> ELSE Head(cks)[3] \o Concat(Tail(cks))

ChunkSize(c) == c[2] - c[1]

\* C1: once the stream is exhausted, whatever sizes the reads returned, the
\* (start, end) pairs fastcdc yielded are those of split over the whole
\* content.
C1_AnyReadsSameBoundaries ==
    fpc = "done" =>
        Boundaries(out) = Boundaries(split(data, GearTable, seed))

\* C2: for non-empty content served by reads that each fill the buffer
\* unless the stream ends inside it, the chunks fastcdc yielded are exactly
\* the chunks of split over the whole content, with and without a seed.
C2_FullReadsSameChunks ==
    (fpc = "done" /\ ~short /\ data # <<>>) =>
        out = split(data, GearTable, seed)

\* a seeded run over content longer than one buffer, read in full reads,
\* that carried a withheld chunk over and yielded several chunks
C2_Witness ==
    /\ fpc = "done" /\ ~short /\ seed # None
    /\ Len(data) > GHASH_CHUNK_HI
    /\ Len(out) >= 3

\* C3: the chunks split yields partition [0, len(data)): the first starts
\* at 0, each starts where the previous ended, each payload is
\* data[start:end], and once the generator is exhausted the last ends at
\* len(data) and the payloads concatenate to data.
C3_SplitPartitions ==
    /\ \A i \in 1..Len(chunks) :
          /\ chunks[i][1] = (IF i = 1 THEN 0 ELSE chunks[i - 1][2])
          /\ chunks[i][3] = Slice(data, chunks[i][1], chunks[i][2])
    /\ SplitDone =>
          /\ chunks # <<>>
          /\ chunks[Len(chunks)][2] = Len(data)
          /\ Concat(chunks) = data

C3_Witness == SplitDone /\ Len(chunks) >= 3

\* C4: whatever sizes the reads return, the chunks fastcdc yielded are
\* contiguous in stream offsets from 0, each payload is content[start:end],
\* the carry-over is the content between the last yielded end and the read
\* position, and once the stream is exhausted the last end is the number of
\* bytes read and the payloads concatenate to the content.
C4_FastcdcContiguous ==
    /\ \A i \in 1..Len(out) :
          /\ out[i][1] = (IF i = 1 THEN 0 ELSE out[i - 1][2])
          /\ out[i][3] = Slice(data, out[i][1], out[i][2])
    /\ fpc = "reading" =>
          /\ st_idx = (IF out = <<>> THEN 0 ELSE out[Len(out)][2])
          /\ remain = Slice(data, st_idx, pos)
    /\ fpc = "done" =>
          /\ pos = Len(data)
          /\ (IF out = <<>> THEN 0 ELSE out[Len(out)][2]) = pos
          /\ Concat(out) = data

\* a run with a short read that carried bytes over and yielded three chunks
C4_Witness ==
    /\ fpc = "done" /\ short /\ Len(out) >= 3
    /\ out[2][2] < Len(data)

\* C5: for data longer than LO, every chunk split yields is at most HI long
\* and every chunk but the final one is at least LO long.
C5_ChunkSizeBounds ==
    Len(data) > GHASH_CHUNK_LO =>
        \A i \in 1..Len(chunks) :
            /\ ChunkSize(chunks[i]) <= GHASH_CHUNK_HI
            /\ (i < Len(chunks) \/ ~SplitDone) =>
                  ChunkSize(chunks[i]) >= GHASH_CHUNK_LO

\* a maximum-size chunk followed by a final chunk below the minimum size
C5_Witness ==
    /\ SplitDone /\ Len(chunks) >= 2
    /\ ChunkSize(chunks[1]) = GHASH_CHUNK_HI
    /\ ChunkSize(chunks[Len(chunks)]) < GHASH_CHUNK_LO

\* the rolling hash over d[LO..idx] inclusive, chained from 0
RECURSIVE RollTo(_, _, _)
RollTo(d, idx, sd) ==
    IF idx < GHASH_CHUNK_LO THEN Zero64
    ELSE ghash(RollTo(d, idx - 1, sd), d[idx + 1], GearTable, sd)

\* the reference cut rule
RefCut(d, sd) ==
    LET n == Len(d)
        end == Min(GHASH_CHUNK_HI, n)
        Hit(idx) ==
            IF idx < Min(GHASH_CHUNK_MD, n)
            THEN WordAnd(RollTo(d, idx, sd), GHASH_MASK_LO) = Zero64
            ELSE WordAnd(RollTo(d, idx, sd), GHASH_MASK_HI) = Zero64
        hits == {idx \in GHASH_CHUNK_LO..(end - 1) : Hit(idx)}
    IN  IF n <= GHASH_CHUNK_LO THEN n
        ELSE IF hits = {} THEN end
        ELSE CHOOSE idx \in hits : \A j \in hits : idx <= j

\* C6: find returns len(data) for data of at most LO bytes, otherwise the
\* smallest index in [LO, min(HI, len)) whose chained hash meets the mask
\* of its phase, and min(HI, len) when there is none.
C6_FindIsReferenceCut == cut # -1 => cut = RefCut(win, seed)

\* a cut the high mask gave at or past MD, in data longer than HI
C6_Witness ==
    /\ cut # -1 /\ Len(win) > GHASH_CHUNK_HI
    /\ cut >= GHASH_CHUNK_MD /\ cut < GHASH_CHUNK_HI

\* the n low bits of v, least significant first
RECURSIVE LimbBits(_, _)
LimbBits(v, n) ==
    IF n = 0 THEN <<>> ELSE <<v % 2>> \o LimbBits(v \div 2, n - 1)

\* the 64 bits of a word, least significant first
Bits(w) ==
    LimbBits(w[4], 16) \o LimbBits(w[3], 16) \o LimbBits(w[2], 16)
        \o LimbBits(w[1], 16)

\* x + g on bit vectors from bit k on, the carry out of bit 64 dropped
RECURSIVE RefAdd(_, _, _, _)
RefAdd(x, g, k, carry) ==
    IF k > 64 THEN <<>>
    ELSE <<(x[k] + g[k] + carry) % 2>>
             \o RefAdd(x, g, k + 1, (x[k] + g[k] + carry) \div 2)

\* ((x << 1) + g) mod 2^64 on bit vectors
RefStep(x, g) == RefAdd(<<0>> \o SubSeq(x, 1, 63), g, 1, 0)

RECURSIVE RefXor(_, _)
RefXor(x, y) ==
    IF x = <<>> THEN <<>>
    ELSE <<(Head(x) + Head(y)) % 2>> \o RefXor(Tail(x), Tail(y))

\* table[byte], XORed with the seed when one is given, as a bit vector
RefGear(ch, sd) ==
    IF sd = None THEN Bits(GearTable[ch])
    ELSE RefXor(Bits(GearTable[ch]), Bits(sd[1]))

RECURSIVE RefChain(_, _, _, _)
RefChain(start, d, n, sd) ==
    IF n = 0 THEN Bits(start)
    ELSE RefStep(RefChain(start, d, n - 1, sd), RefGear(d[n], sd))

\* the window find sees when the bytes rolled so far follow LO other bytes
GhashWindow == [i \in 1..GHASH_CHUNK_LO |-> 0] \o SubSeq(data, 1, fed)

\* C7: every value of the ghash chain is ((h << 1) + gear) mod 2^64 of the
\* one before, gear being table[byte] XOR seed when a seed is given; it lies
\* in [0, 2^64); and chained from 0 it is the hash value find's loops hold
\* after the same bytes.
C7_GhashFormula ==
    /\ Len(h) = 4 /\ \A i \in 1..4 : h[i] \in 0..(LimbBase - 1)
    /\ Bits(h) = RefChain(h0, data, fed, seed)
    /\ (h0 = Zero64 /\ fed >= 1 /\ GHASH_CHUNK_LO + fed <= GHASH_CHUNK_HI) =>
          LET scan == FindScan(GhashWindow, FindPhases(GhashWindow),
                               GHASH_CHUNK_LO, Zero64, GearTable, seed)
          IN  scan.ret >= Len(GhashWindow) - 1 => scan.hash = h

\* a seeded chain of three bytes whose shift overflowed bit 63
C7_Witness ==
    /\ fed >= 3 /\ seed # None /\ h0[1] >= \h8000
    /\ h # Zero64

----------------------------------------------------------------------------
(* hashlib: a hash object is what it has absorbed; its digest is one block *)
(* that stands for exactly that input (a collision-free hash).  A byte     *)
(* string is a sequence of byte symbols and digest blocks.                 *)

Byte(n) == [byte |-> n]

\* hashlib.new(name), or hash() for a hash type: nothing absorbed yet
HashNew == <<>>

HashCopy(hs) == hs

\* an object that is no hash object, such as 42, None or int()
NotAHash == <<[obj |-> 42]>>

\* whether hs has the methods of a hash object: copy, update, digest
IsHash(hs) == \A k \in 1..Len(hs) : DOMAIN hs[k] # {"obj"}

HashUpdate(hs, bytes) == hs \o bytes

HashDigest(hs) == <<[hash |-> hs]>>

----------------------------------------------------------------------------
(* collections.deque: indexing as the tree uses it *)

\* whether i is a valid index: -len <= i < len
InRange(q, i) == -Len(q) <= i /\ i < Len(q)

\* the one-based position index i stands for
At(q, i) == (IF i >= 0 THEN i ELSE Len(q) + i) + 1

DequeSet(q, i, x) == [q EXCEPT ![At(q, i)] = x]

\* del q[i] taking the right-most item whatever the index
DequeDelLast(q, i) == SubSeq(q, 1, Len(q) - 1)

DequeDel(q, i) == SubSeq(q, 1, At(q, i) - 1) \o SubSeq(q, At(q, i) + 1, Len(q))

\* deque.insert: an index past either end inserts at that end
DequeInsert(q, i, x) ==
    LET n == Len(q)
        k == IF i >= n THEN n
             ELSE IF i >= 0 THEN i
             ELSE IF n + i < 0 THEN 0
             ELSE n + i
    IN  SubSeq(q, 1, k) \o <<x>> \o SubSeq(q, k + 1, n)

----------------------------------------------------------------------------
(* none.hash.tree.Merkle *)

LEAF_SEED == <<Byte(0)>>
NODE_SEED == <<Byte(1)>>

\* the payloads given to the tree
Payloads == {<<>>, <<Byte(1)>>}

\* a str: an object hash.update refuses, no bytes-like object
NotBytes == <<[char |-> 1]>>

\* whether hash.update takes d
BytesLike(d) == \A k \in 1..Len(d) : DOMAIN d[k] = {"byte"}

\* what callers pass as leaf data
Arguments == Payloads \cup {NotBytes}

\* the iterables given to the constructor and to extend
Iterables == UNION {[1..n -> Arguments] : n \in 0..MaxIter}

\* _digest_leaf with the leaf seed left out
_digest_leafUnseeded(tpl, d) == HashDigest(HashUpdate(HashCopy(tpl), d))

_digest_leaf(tpl, d) ==
    HashDigest(HashUpdate(HashUpdate(HashCopy(tpl), LEAF_SEED), d))

\* _digest_leaf with a hash object that takes any object
_digest_leafAccepts(tpl, d) == ""

\* the exception _digest_leaf ends with, "" when it returns
_digest_leafRaises(tpl, d) ==
    IF ~IsHash(tpl) THEN "AttributeError"
    ELSE IF ~BytesLike(d) THEN "TypeError"
    ELSE ""

\* the items an iterator over it hands out before _digest_leaf raises
RECURSIVE Taken(_, _)
Taken(tpl, it) ==
    IF it = <<>> \/ _digest_leafRaises(tpl, Head(it)) # "" THEN <<>>
    ELSE <<Head(it)>> \o Taken(tpl, Tail(it))

\* the exception map(_digest_leaf, it) ends with, "" when it is exhausted
MapRaises(tpl, it) ==
    IF Len(Taken(tpl, it)) = Len(it) THEN ""
    ELSE _digest_leafRaises(tpl, it[Len(Taken(tpl, it)) + 1])

\* deque.extend(map(_digest_leaf, iterable)): one leaf appended per item,
\* as they come out of the iterator
RECURSIVE DequeExtend(_, _, _)
DequeExtend(q, tpl, it) ==
    IF it = <<>> \/ _digest_leafRaises(tpl, Head(it)) # "" THEN q
    ELSE DequeExtend(Append(q, _digest_leaf(tpl, Head(it))), tpl, Tail(it))

\* the for loop of digest with a trailing node of an odd level kept as it is
RECURSIVE DigestLevelPromote(_, _)
DigestLevelPromote(stack, tpl) ==
    IF stack = <<>> THEN <<>>
    ELSE IF Len(stack) = 1 THEN stack
    ELSE <<HashDigest(HashUpdate(HashUpdate(HashUpdate(HashCopy(tpl),
                NODE_SEED), stack[1]), stack[2]))>>
           \o DigestLevelPromote(SubSeq(stack, 3, Len(stack)), tpl)

\* the for loop of digest with the node an odd level ends with paired
\* with itself
RECURSIVE DigestLevelDuplicate(_, _)
DigestLevelDuplicate(stack, tpl) ==
    IF stack = <<>> THEN <<>>
    ELSE <<HashDigest(HashUpdate(HashUpdate(HashUpdate(HashCopy(tpl),
                NODE_SEED), stack[1]),
                IF Len(stack) >= 2 THEN stack[2] ELSE stack[1]))>>
           \o DigestLevelDuplicate(SubSeq(stack, 3, Len(stack)), tpl)

\* the for loop of digest: the nodes of the next level, leaves taken by
\* groups of two, the right one missing at the end of an odd level
RECURSIVE DigestLevel(_, _)
DigestLevel(stack, tpl) ==
    IF stack = <<>> THEN <<>>
    ELSE LET left == stack[1]
             right == IF Len(stack) >= 2 THEN Some(stack[2]) ELSE None
             h1 == HashUpdate(HashUpdate(HashCopy(tpl), NODE_SEED), left)
             h2 == IF right # None THEN HashUpdate(h1, right[1]) ELSE h1
         IN  <<HashDigest(h2)>>
               \o DigestLevel(SubSeq(stack, 3, Len(stack)), tpl)

\* the while loop of digest
RECURSIVE DigestStack(_, _)
DigestStack(stack, tpl) ==
    IF Len(stack) > 1 THEN DigestStack(DigestLevel(stack, tpl), tpl)
    ELSE stack

\* the exception digest() ends with, "" when it returns: a lone leaf is
\* returned without a call on the hash object
DigestRaises(lv, tpl) ==
    IF ~IsHash(tpl) /\ Len(lv) # 1 THEN "AttributeError" ELSE ""

\* digest() with a lone leaf hashed as a node once more
DigestRootRehashed(lv, tpl) ==
    LET stack == DigestStack(lv, tpl)
    IN  IF stack # <<>> THEN DigestLevel(stack, tpl)[1]
        ELSE HashDigest(tpl)

\* digest() without index: stack.pop(), or the digest of the base hash
DigestRoot(lv, tpl) ==
    LET stack == DigestStack(lv, tpl)
    IN  IF stack # <<>> THEN stack[Len(stack)]
        ELSE HashDigest(tpl)

\* a plain list under the same calls: its elements after each of them
ListInsert(l, i, x) ==
    LET n == Len(l)
        k == IF i < 0 THEN (IF i + n < 0 THEN 0 ELSE i + n)
             ELSE (IF i > n THEN n ELSE i)
    IN  [j \in 1..(n + 1) |->
            IF j <= k THEN l[j] ELSE IF j = k + 1 THEN x ELSE l[j - 1]]

ListSet(l, i, x) ==
    [j \in 1..Len(l) |-> IF j = (IF i < 0 THEN i + Len(l) ELSE i) + 1
                         THEN x ELSE l[j]]

ListDel(l, i) ==
    [j \in 1..(Len(l) - 1) |->
        IF j < (IF i < 0 THEN i + Len(l) ELSE i) + 1 THEN l[j] ELSE l[j + 1]]

Call(name, i) == [op |-> name, i |-> i]

\* the indices tried on a tree: every valid one and one past either end
Indices == (-(Len(_leaves) + 1))..(Len(_leaves) + 1)

\* what the constructor is given as hash: the name of an algorithm, a hash
\* type, a hash object; a name hashlib does not know, an object that
\* cannot be called, a callable that returns no hash object
Resolvable == {"name", "type", "instance"}
HashArguments == Resolvable \cup {"unknown name", "object", "callable"}

\* the exception the first lines of the constructor end with
NewRaises(a) == IF a = "unknown name" THEN "ValueError" ELSE ""

\* self._hash: hashlib.new(hash), or hash(), or hash itself when it cannot
\* be called
NewHash(a) == IF a \in Resolvable THEN HashNew ELSE NotAHash

\* Merkle(hash, iterable)
Construct(a, it) ==
    /\ IF NewRaises(a) # ""
       THEN _hash = None /\ _leaves = <<>> /\ payloads = <<>>
            /\ exc = NewRaises(a)
       ELSE /\ _hash = NewHash(a)
            /\ _leaves = DequeExtend(<<>>, _hash, it)
            /\ payloads = Taken(_hash, it)
            /\ exc = MapRaises(_hash, it)
    /\ ret = None
    /\ last = Call("__init__", None)
    /\ shrunk = FALSE
    /\ arg = None
    /\ twin = None
    /\ data = <<>> /\ seed = None
    /\ SplitIdle /\ GhashIdle /\ FastcdcIdle /\ TaskIdle /\ BatchIdle /\ Idle

\* a tree of an algorithm hashlib has
InitMerkle ==
    /\ \E a \in Resolvable, it \in Iterables : Construct(a, it)
    /\ instance = ""

\* a tree made with anything given as hash
InitAnyHash ==
    /\ \E a \in HashArguments, it \in Iterables : Construct(a, it)
    /\ instance = ""

\* room for n more leaves
Room(n) ==
    /\ Len(_leaves) + n <= MaxLeaves
    /\ twin # None => Len(_leaves) + n + Len(twin[1]._leaves) <= MaxPair

\* the second tree after the leaves of this one became q: a deque that is
\* the same object shows the same items
Follow(q) ==
    IF twin # None /\ twin[1].shared
    THEN Some([twin[1] EXCEPT !._leaves = q])
    ELSE twin

\* whether the constructor returned a tree: no call is made on one it
\* raised out of
Created == ~(last.op = "__init__" /\ exc # "")

\* a call that raised e
Thrown(name, i, e) ==
    /\ Created
    /\ ret' = None
    /\ exc' = e
    /\ last' = Call(name, i)
    /\ twin' = Follow(_leaves')
    /\ UNCHANGED <<_hash, instance, cdcVars, taskVars, batchVars,
                   callableVars, iterVars, asyncVars>>

\* a call that raised before it touched the leaves
Raised(name, i, e) ==
    /\ UNCHANGED <<_leaves, payloads, shrunk>>
    /\ Thrown(name, i, e)

\* a call that returned r
Returned(name, i, r) ==
    /\ Created
    /\ ret' = r
    /\ exc' = ""
    /\ last' = Call(name, i)
    /\ twin' = Follow(_leaves')
    /\ UNCHANGED <<_hash, instance, cdcVars, taskVars, batchVars,
                   callableVars, iterVars, asyncVars>>

__getitem__(i) ==
    /\ arg' = None
    /\ IF InRange(_leaves, i)
       THEN /\ UNCHANGED <<_leaves, payloads, shrunk>>
            /\ Returned("__getitem__", Some(i), Some(_leaves[At(_leaves, i)]))
       ELSE Raised("__getitem__", Some(i), "IndexError")

__setitem__(i, d) ==
    /\ arg' = Some(d)
    /\ IF _digest_leafRaises(_hash, d) # ""
       THEN Raised("__setitem__", Some(i), _digest_leafRaises(_hash, d))
       ELSE IF InRange(_leaves, i)
       THEN /\ _leaves' = DequeSet(_leaves, i, _digest_leaf(_hash, d))
            /\ payloads' = ListSet(payloads, i, d)
            /\ Returned("__setitem__", Some(i), None)
            /\ UNCHANGED shrunk
       ELSE Raised("__setitem__", Some(i), "IndexError")

\* __delitem__ removing the leaf nearest to an index out of range
__delitem__Clamped(i) ==
    /\ arg' = None
    /\ IF _leaves # <<>>
       THEN /\ _leaves' = DequeDel(_leaves, IF i >= Len(_leaves) THEN -1
                                            ELSE IF i < -Len(_leaves) THEN 0
                                            ELSE i)
            /\ payloads' = ListDel(payloads, IF i >= Len(_leaves) THEN -1
                                            ELSE IF i < -Len(_leaves) THEN 0
                                            ELSE i)
            /\ shrunk' = TRUE
            /\ Returned("__delitem__", Some(i), None)
       ELSE Raised("__delitem__", Some(i), "IndexError")

__delitem__(i) ==
    /\ arg' = None
    /\ IF InRange(_leaves, i)
       THEN /\ _leaves' = DequeDel(_leaves, i)
            /\ payloads' = ListDel(payloads, i)
            /\ shrunk' = TRUE
            /\ Returned("__delitem__", Some(i), None)
       ELSE Raised("__delitem__", Some(i), "IndexError")

\* the effect append has on the leaves, under the name it was called by
AppendAs(name, d) ==
    /\ arg' = Some(d)
    /\ IF _digest_leafRaises(_hash, d) # ""
       THEN Raised(name, None, _digest_leafRaises(_hash, d))
       ELSE /\ Room(1)
            /\ _leaves' = Append(_leaves, _digest_leaf(_hash, d))
            /\ payloads' = payloads \o <<d>>
            /\ Returned(name, None, None)
            /\ UNCHANGED shrunk

append(d) == AppendAs("append", d)

\* return self.append(data)
update(d) == AppendAs("update", d)

extend(it) ==
    /\ arg' = None
    /\ Room(Len(it))
    /\ _leaves' = DequeExtend(_leaves, _hash, it)
    /\ payloads' = payloads \o Taken(_hash, it)
    /\ IF MapRaises(_hash, it) = "" THEN Returned("extend", None, None)
       ELSE Thrown("extend", None, MapRaises(_hash, it))
    /\ UNCHANGED shrunk

insert(i, d) ==
    /\ arg' = Some(d)
    /\ IF _digest_leafRaises(_hash, d) # ""
       THEN Raised("insert", Some(i), _digest_leafRaises(_hash, d))
       ELSE /\ Room(1)
            /\ _leaves' = DequeInsert(_leaves, i, _digest_leaf(_hash, d))
            /\ payloads' = ListInsert(payloads, i, d)
            /\ Returned("insert", Some(i), None)
            /\ UNCHANGED shrunk

\* pop(): the right-most leaf; pop(i): item = self[i]; del self[i]
pop(i) ==
    /\ arg' = None
    /\ IF i = None
       THEN IF _leaves # <<>>
            THEN /\ _leaves' = SubSeq(_leaves, 1, Len(_leaves) - 1)
                 /\ payloads' = SubSeq(payloads, 1, Len(payloads) - 1)
                 /\ shrunk' = TRUE
                 /\ Returned("pop", None, Some(_leaves[Len(_leaves)]))
            ELSE Raised("pop", None, "IndexError")
       ELSE IF InRange(_leaves, i[1])
            THEN /\ _leaves' = DequeDel(_leaves, i[1])
                 /\ payloads' = ListDel(payloads, i[1])
                 /\ shrunk' = TRUE
                 /\ Returned("pop", i, Some(_leaves[At(_leaves, i[1])]))
            ELSE Raised("pop", i, "IndexError")

clear ==
    /\ arg' = None
    /\ _leaves' = <<>>
    /\ payloads' = <<>>
    /\ shrunk' = (shrunk \/ _leaves # <<>>)
    /\ Returned("clear", None, None)

\* digest() feeding the node seed to the stored hash object, not to a copy
digestInPlace(i) ==
    /\ arg' = None
    /\ Created
    /\ IF i # None
       THEN IF InRange(_leaves, i[1])
            THEN ret' = Some(_leaves[At(_leaves, i[1])]) /\ exc' = ""
            ELSE ret' = None /\ exc' = "IndexError"
       ELSE IF DigestRaises(_leaves, _hash) # ""
            THEN ret' = None /\ exc' = DigestRaises(_leaves, _hash)
            ELSE ret' = Some(DigestRoot(_leaves, _hash)) /\ exc' = ""
    /\ _hash' = IF i = None /\ Len(_leaves) > 1 /\ IsHash(_hash)
                THEN HashUpdate(_hash, NODE_SEED)
                ELSE _hash
    /\ last' = Call("digest", i)
    /\ twin' = Follow(_leaves)
    /\ UNCHANGED <<_leaves, payloads, shrunk, instance, cdcVars, taskVars,
                   batchVars, callableVars, iterVars, asyncVars>>

\* digest(i): the leaf at i; digest(): the root over a copy of the leaves
digest(i) ==
    /\ arg' = None
    /\ IF i # None
       THEN IF InRange(_leaves, i[1])
            THEN /\ UNCHANGED <<_leaves, payloads, shrunk>>
                 /\ Returned("digest", i, Some(_leaves[At(_leaves, i[1])]))
            ELSE Raised("digest", i, "IndexError")
       ELSE IF DigestRaises(_leaves, _hash) # ""
            THEN Raised("digest", None, DigestRaises(_leaves, _hash))
            ELSE /\ UNCHANGED <<_leaves, payloads, shrunk>>
                 /\ Returned("digest", None,
                             Some(DigestRoot(_leaves, _hash)))

\* bytes.hex(): the digest written as hexadecimal digits
Hex(b) == <<[hex |-> b]>>

\* return self.digest(i).hex()
hexdigest(i) ==
    /\ arg' = None
    /\ IF i # None /\ ~InRange(_leaves, i[1])
       THEN Raised("hexdigest", i, "IndexError")
       ELSE IF i = None /\ DigestRaises(_leaves, _hash) # ""
       THEN Raised("hexdigest", i, DigestRaises(_leaves, _hash))
       ELSE /\ UNCHANGED <<_leaves, payloads, shrunk>>
            /\ Returned("hexdigest", i,
                        Some(Hex(IF i # None THEN _leaves[At(_leaves, i[1])]
                                 ELSE DigestRoot(_leaves, _hash))))

\* copy() handing the new tree the deque of this one
copyAliased ==
    /\ Created
    /\ 2 * Len(_leaves) <= MaxPair
    /\ twin' = Some([_hash |-> HashCopy(_hash), _leaves |-> _leaves,
                     payloads |-> payloads, shared |-> TRUE])
    /\ instance' = (IF instance = "twin" THEN "gone" ELSE instance)
    /\ last' = Call("copy", None)
    /\ ret' = None /\ exc' = "" /\ arg' = None
    /\ UNCHANGED <<_hash, _leaves, payloads, shrunk, cdcVars, taskVars,
                   batchVars, callableVars, iterVars, asyncVars>>

\* copy(): tree = Merkle(hash=self._hash.copy()), the constructor keeping
\* the hash object it cannot call; tree._leaves = self._leaves.copy().
\* The new tree takes the place of the second tree: a hash object the
\* caller holds as the template of the former second tree is out of reach
copy ==
    /\ Created
    /\ 2 * Len(_leaves) <= MaxPair
    /\ twin' = Some([_hash |-> HashCopy(_hash), _leaves |-> _leaves,
                     payloads |-> payloads, shared |-> FALSE])
    /\ instance' = (IF instance = "twin" THEN "gone" ELSE instance)
    /\ last' = Call("copy", None)
    /\ ret' = None /\ exc' = "" /\ arg' = None
    /\ UNCHANGED <<_hash, _leaves, payloads, shrunk, cdcVars, taskVars,
                   batchVars, callableVars, iterVars, asyncVars>>

\* the caller turns to the second tree: the calls that follow are made on
\* it, and the tree they were made on is now the second one
Turn ==
    /\ twin # None
    /\ _hash' = twin[1]._hash
    /\ _leaves' = twin[1]._leaves
    /\ payloads' = twin[1].payloads
    /\ twin' = Some([twin[1] EXCEPT !._hash = _hash, !._leaves = _leaves,
                                    !.payloads = payloads])
    /\ instance' = (IF instance = "self" THEN "twin"
                    ELSE IF instance = "twin" THEN "self" ELSE instance)
    /\ last' = Call("turn", None)
    /\ ret' = None /\ exc' = "" /\ arg' = None
    /\ UNCHANGED <<shrunk, cdcVars, taskVars, batchVars, callableVars,
                   iterVars, asyncVars>>

NextMerkle ==
    \/ \E i \in Indices : __getitem__(i)
    \/ \E i \in Indices, d \in Arguments : __setitem__(i, d)
    \/ \E i \in Indices : __delitem__(i)
    \/ \E d \in Arguments : append(d)
    \/ \E d \in Arguments : update(d)
    \/ \E it \in Iterables : extend(it)
    \/ \E i \in Indices, d \in Arguments : insert(i, d)
    \/ \E i \in {None} \cup {Some(k) : k \in Indices} : pop(i)
    \/ clear
    \/ \E i \in {None} \cup {Some(k) : k \in Indices} : digest(i)
    \/ \E i \in {None} \cup {Some(k) : k \in Indices} : hexdigest(i)

SpecMerkle == InitMerkle /\ [][NextMerkle]_vars

SpecAnyHash == InitAnyHash /\ [][NextMerkle]_vars

NextTwin ==
    \/ NextMerkle
    \/ copy
    \/ Turn

SpecTwin == InitMerkle /\ [][NextTwin]_vars

\* the most bytes the caller feeds to the hash object it gave
MaxFed == 1

\* hash.update(d), called by the caller on the hash object that was given
\* to the constructor: `self._hash = hash` made it the tree's own
hash_update(d) ==
    /\ Created
    /\ instance # ""
    /\ CASE instance = "self" ->
              /\ Len(_hash) + Len(d) <= MaxFed
              /\ _hash' = HashUpdate(_hash, d)
              /\ twin' = twin
         [] instance = "twin" ->
              /\ Len(twin[1]._hash) + Len(d) <= MaxFed
              /\ _hash' = _hash
              /\ twin' = Some([twin[1] EXCEPT
                                   !._hash = HashUpdate(twin[1]._hash, d)])
         [] instance = "gone" ->
              /\ _hash' = _hash
              /\ twin' = twin
    /\ last' = Call("hash.update", None)
    /\ ret' = None /\ exc' = "" /\ arg' = None
    /\ UNCHANGED <<_leaves, payloads, shrunk, instance, cdcVars, taskVars,
                   batchVars, callableVars, iterVars, asyncVars>>

\* a tree made of a hash object the caller keeps
InitInstance ==
    /\ \E it \in Iterables : Construct("instance", it)
    /\ instance = "self"

\* the calls that hash with the template, the copy, and the caller's feed
NextInstance ==
    \/ \E d \in Payloads : append(d)
    \/ pop(None)
    \/ \E i \in {None} \cup {Some(k) : k \in Indices} : digest(i)
    \/ copy
    \/ Turn
    \/ \E d \in Payloads : hash_update(d)

SpecInstance == InitInstance /\ [][NextInstance]_vars

----------------------------------------------------------------------------
(* Properties of the Merkle tree *)

\* Hash(x): the digest the hash algorithm gives the byte string x
Hash(x) == <<[hash |-> x]>>

\* one level of the reduction: node k of the next level
RefLevel(nodes) ==
    [k \in 1..((Len(nodes) + 1) \div 2) |->
        IF 2 * k <= Len(nodes)
        THEN Hash(<<Byte(1)>> \o nodes[2 * k - 1] \o nodes[2 * k])
        ELSE Hash(<<Byte(1)>> \o nodes[2 * k - 1])]

RECURSIVE RefRoot(_)
RefRoot(nodes) ==
    IF Len(nodes) = 1 THEN nodes[1] ELSE RefRoot(RefLevel(nodes))

RootReturned == last = Call("digest", None) /\ exc = ""

\* C8: for two or more leaves digest() returns the bottom-up reduction of
\* the leaf digests: pairs become Hash(0x01 || left || right), the unpaired
\* node of an odd level becomes Hash(0x01 || left), until one digest is left.
C8_DigestIsReduction ==
    (RootReturned /\ Len(_leaves) >= 2) => ret = Some(RefRoot(_leaves))

\* a root over five leaves: the levels of five and of three nodes are odd
C8_Witness == RootReturned /\ Len(_leaves) = 5

\* C9: digest() of a tree with no leaf is the hash of no input, and of a
\* tree with one leaf is that leaf's digest Hash(0x00 || payload), also
\* after leaves were removed.
C9_DigestEmptyAndSingle ==
    RootReturned =>
        /\ Len(_leaves) = 0 => ret = Some(Hash(<<>>))
        /\ Len(_leaves) = 1 => ret = Some(Hash(<<Byte(0)>> \o payloads[1]))

\* a root taken of the one leaf left after a removal
C9_Witness == RootReturned /\ shrunk /\ Len(_leaves) = 1

\* C10: after any sequence of calls the leaves are those of a plain list
\* under the same calls whose elements are Hash(0x00 || payload), and
\* indexing and digest(i) return the element of that list.
C10_LeavesAreHashedList ==
    /\ Len(_leaves) = Len(payloads)
    /\ \A k \in 1..Len(_leaves) :
          _leaves[k] = Hash(<<Byte(0)>> \o payloads[k])
    /\ (last.op \in {"digest", "__getitem__"} /\ last.i # None /\ exc = "") =>
          ret = Some(Hash(<<Byte(0)>> \o payloads[At(payloads, last.i[1])]))

\* an insert between two leaves of a tree that has also lost a leaf
C10_Witness ==
    /\ last = Call("insert", Some(1)) /\ shrunk
    /\ Len(_leaves) >= 3
    /\ payloads[1] # payloads[2]

\* the calls that take an index
Indexed == {"__getitem__", "__setitem__", "__delitem__", "pop", "digest",
            "hexdigest"}

OutOfRange(q, i) == i >= Len(q) \/ i < -Len(q)

\* the call of the step raised e and left the leaves alone
Refused(e) == exc' = e /\ ret' = None /\ _leaves' = _leaves

\* the call of the step was given no data, or bytes
NoBadData == arg' = None \/ BytesLike(arg'[1])

IndexErrorStep ==
    /\ (last'.op \in Indexed /\ last'.i # None /\ NoBadData
           /\ OutOfRange(_leaves, last'.i[1])) => Refused("IndexError")
    /\ (last' = Call("pop", None) /\ _leaves = <<>>) => Refused("IndexError")

\* C11: index get, set, delete, pop(i), digest(i) and hexdigest(i) with
\* i >= len or i < -len raise IndexError and leave the leaves as they were;
\* pop() of an empty tree raises IndexError.
C11_OutOfRangeRaises == [][IndexErrorStep]_vars

\* a delete one past the end of a tree of three leaves was refused
C11_Witness ==
    /\ last = Call("__delitem__", Some(3)) /\ exc = "IndexError"
    /\ Len(_leaves) = 3

InsertRefusedStep ==
    (last'.op = "insert" /\ NoBadData
       /\ (last'.i[1] > Len(_leaves) \/ last'.i[1] < -Len(_leaves))) =>
      Refused("IndexError")

\* C12: insert(i, data) with i > len or i < -len fails with an index error
\* and leaves the tree as it was, instead of inserting at the nearest end.
C12_InsertOutOfRangeRaises == [][InsertRefusedStep]_vars

ExtendRefusedStep ==
    (last'.op = "extend" /\ exc' = "TypeError") => _leaves' = _leaves

\* C13: extend is all or nothing: when a payload of the iterable is
\* rejected as not bytes-like, the leaves are what they were before the
\* call, wherever the bad payload sits.
C13_ExtendAllOrNothing == [][ExtendRefusedStep]_vars

BadPayloadStep ==
    (last'.op \in {"append", "update", "insert", "__setitem__"}
       /\ ~NoBadData) => Refused("TypeError")

\* C14: append, update, insert and index set given a payload that is not
\* bytes-like raise TypeError and leave the leaves as they were, whether
\* or not the index is in range.
C14_BadPayloadRaises == [][BadPayloadStep]_vars

\* an index set with an index out of range and a payload that is no bytes
C14_Witness ==
    /\ last = Call("__setitem__", Some(Len(_leaves) + 1))
    /\ arg = Some(NotBytes) /\ exc = "TypeError" /\ Len(_leaves) >= 2

\* what digest() of either tree returns
Root == DigestRoot(_leaves, _hash)
TwinRoot == DigestRoot(twin[1]._leaves, twin[1]._hash)

\* a call made on the tree, the making of a copy and the turn to it aside
Method == last'.op \notin {"copy", "turn"}

\* the root of a payload sequence, whatever tree holds it
RootOf(p) ==
    IF p = <<>> THEN Hash(<<>>)
    ELSE RefRoot([k \in 1..Len(p) |-> Hash(<<Byte(0)>> \o p[k])])

CopyStep ==
    /\ last'.op = "copy" =>
          /\ twin'[1]._hash = _hash /\ twin'[1]._leaves = _leaves
          /\ _hash' = _hash /\ _leaves' = _leaves
    /\ (twin # None /\ Method) =>
          /\ twin'[1]._hash = twin[1]._hash
          /\ twin'[1]._leaves = twin[1]._leaves

\* digest() of the second tree is the root of the payloads it was given,
\* and right after copy() the root of the tree it was copied from
CopyRoot ==
    twin # None =>
        /\ TwinRoot = RootOf(twin[1].payloads)
        /\ last.op = "copy" => TwinRoot = Root

\* C15: copy() returns a tree of the same algorithm with equal leaves and
\* an equal digest(), and no later call on either tree changes the leaves
\* or the digest() of the other.
C15_CopyIsIndependent == [][CopyStep]_vars /\ []CopyRoot

\* a leaf was deleted from one of the two trees and the other kept its two
C15_Witness ==
    /\ twin # None /\ last.op = "__delitem__" /\ exc = ""
    /\ Len(_leaves) = 1 /\ Len(twin[1]._leaves) = 2

\* C16: digest() depends on the ordered payloads alone: it is the same
\* function of them after any history of calls, and two trees that hold
\* the same payloads by different routes have the same digest().
C16_RootIgnoresHistory ==
    /\ RootReturned => ret = Some(RootOf(payloads))
    /\ (twin # None /\ twin[1].payloads = payloads) => Root = TwinRoot

\* an insert, after a removal, has just made a tree equal to the other
C16_Witness ==
    /\ twin # None /\ twin[1].payloads = payloads
    /\ last.op = "insert" /\ exc = "" /\ shrunk
    /\ Len(payloads) = 2 /\ payloads[1] # payloads[2]

\* the tree after self[k] = x, and a tree built of the payloads and x
RootAfterSet(k, x) ==
    DigestRoot(DequeSet(_leaves, k, _digest_leaf(_hash, x)), _hash)
RootWith(x) ==
    DigestRoot(DequeExtend(<<>>, HashNew, payloads \o <<x>>), HashNew)

\* C17: with a hash free of collisions, an index set that replaces a
\* payload by another changes digest(), and the payloads P and P + [extra]
\* have different digest() for every P, the empty one included.
C17_RootDistinguishes ==
    /\ \A k \in 0..(Len(_leaves) - 1), x \in Payloads :
          x # payloads[k + 1] => RootAfterSet(k, x) # Root
    /\ \A x \in Payloads : RootWith(x) # Root

\* a tree of three leaves, the last of them set: an odd level, and an
\* extra payload equal to the last one
C17_Witness ==
    /\ last = Call("__setitem__", Some(2)) /\ exc = ""
    /\ Len(_leaves) = 3

\* C18: a hash argument that resolves to no hash implementation makes the
\* constructor fail: no tree exists whose hash object is none.
C18_UnresolvedHashFailsEarly == Created => IsHash(_hash)

----------------------------------------------------------------------------
(* none.task.abc: Task.run and AsyncTask.run, the same statements with the
   events awaited in the second *)

\* an exception object: its type and the step that raised it
Exception(t, by) == [type |-> t, by |-> by]

\* E and F derive from Exception; B derives from BaseException only, as
\* KeyboardInterrupt and asyncio.CancelledError do
ExcTypes == {"E", "F", "B"}

\* whether "except Exception" catches e
IsException(e) == e.type # "B"

isinstance(e, types) == e.type \in types

\* what a step does: it returns, or it raises an exception of some type
Outcomes == {None} \cup {Some(t) : t \in ExcTypes}

\* Task(ignore_exc, raise_exc) and a call of run: exc = []
InitTask ==
    /\ is_async \in BOOLEAN
    /\ ignore_exc \in {{}, {"E"}}
    /\ raise_exc \in BOOLEAN
    /\ pc = "on_call" /\ events = <<>> /\ excs = <<>> /\ raising = None
    /\ inhibited = FALSE /\ outs = <<>>
    /\ data = <<>> /\ seed = None
    /\ SplitIdle /\ GhashIdle /\ FastcdcIdle /\ MerkleIdle /\ BatchIdle /\ Idle

\* the outer try with control going past finally: when an exception that
\* is no Exception leaves it
AfterTrySkipsExit(r) ==
    IF r = None THEN "else"
    ELSE IF IsException(r[1]) THEN "except"
    ELSE "done"

\* where control goes when the outer try block is left with r in flight
AfterTry(r) ==
    IF r = None THEN "else"
    ELSE IF IsException(r[1]) THEN "except"
    ELSE "finally"

\* what run leaves alone
Fixed == UNCHANGED <<is_async, ignore_exc, cdcVars, merkleVars, batchVars,
                     callableVars, iterVars, asyncVars>>

\* an event that leaves the attributes of the task alone
Kept == UNCHANGED <<raise_exc, inhibited>>

\* self.on_call()
on_call(o) ==
    /\ pc = "on_call"
    /\ events' = Append(events, "on_call")
    /\ outs' = Append(outs, o)
    /\ raising' = IF o = None THEN None
                  ELSE Some(Exception(o[1], "on_call"))
    /\ pc' = IF o = None THEN "__call__" ELSE AfterTry(raising')
    /\ UNCHANGED excs
    /\ Fixed
    /\ Kept

\* self(*args, **kwargs) and its except clause
__call__(o) ==
    /\ pc = "__call__"
    /\ events' = Append(events, "__call__")
    /\ outs' = Append(outs, o)
    /\ IF o = None
       THEN raising' = None /\ excs' = excs
       ELSE LET e == Exception(o[1], "__call__")
            IN  IF ~IsException(e)
                THEN raising' = Some(e) /\ excs' = excs
                ELSE /\ excs' = Append(excs, e)
                     /\ raising' = IF ~isinstance(e, ignore_exc)
                                   THEN Some(e) ELSE None
    /\ pc' = "on_done"
    /\ Fixed
    /\ Kept

\* on_done with what it raises lost when an exception is in flight
on_doneMasked(o) ==
    /\ pc = "on_done"
    /\ events' = Append(events, "on_done")
    /\ outs' = Append(outs, o)
    /\ raising' = IF o = None \/ raising # None THEN raising
                  ELSE Some(Exception(o[1], "on_done"))
    /\ pc' = AfterTry(raising')
    /\ UNCHANGED excs
    /\ Fixed
    /\ Kept

\* finally: self.on_done()
on_done(o) ==
    /\ pc = "on_done"
    /\ events' = Append(events, "on_done")
    /\ outs' = Append(outs, o)
    /\ raising' = IF o = None THEN raising
                  ELSE Some(Exception(o[1], "on_done"))
    /\ pc' = AfterTry(raising')
    /\ UNCHANGED excs
    /\ Fixed
    /\ Kept

\* except Exception as e: exc[-1] raises IndexError when exc is empty;
\* else self.on_failure(*exc), which may set self.raise_exc to False, then
\* raise if self.raise_exc
on_failure(o, inhibit) ==
    /\ pc = "except"
    /\ IF excs = <<>>
       THEN /\ o = None /\ ~inhibit
            /\ raising' = Some(Exception("IndexError", "run"))
            /\ UNCHANGED <<events, outs, excs, raise_exc, inhibited>>
       ELSE /\ excs' = IF raising[1] # excs[Len(excs)]
                       THEN Append(excs, raising[1]) ELSE excs
            /\ events' = Append(events, "on_failure")
            /\ outs' = Append(outs, o)
            /\ raise_exc' = (raise_exc /\ ~inhibit)
            /\ inhibited' = inhibit
            /\ raising' = IF o # None
                          THEN Some(Exception(o[1], "on_failure"))
                          ELSE IF raise_exc' THEN raising ELSE None
    /\ pc' = "finally"
    /\ Fixed

\* the else clause with nothing raised after on_success
on_successQuiet(o) ==
    /\ pc = "else"
    /\ events' = Append(events, "on_success")
    /\ outs' = Append(outs, o)
    /\ raising' = IF o # None THEN Some(Exception(o[1], "on_success"))
                  ELSE None
    /\ pc' = "finally"
    /\ UNCHANGED excs
    /\ Fixed
    /\ Kept

\* else: self.on_success(*exc), then raise exc[-1] if exc and raise_exc
on_success(o) ==
    /\ pc = "else"
    /\ events' = Append(events, "on_success")
    /\ outs' = Append(outs, o)
    /\ raising' = IF o # None THEN Some(Exception(o[1], "on_success"))
                  ELSE IF excs # <<>> /\ raise_exc
                  THEN Some(excs[Len(excs)]) ELSE None
    /\ pc' = "finally"
    /\ UNCHANGED excs
    /\ Fixed
    /\ Kept

\* finally: self.on_exit(); what is in flight then leaves run
on_exit(o) ==
    /\ pc = "finally"
    /\ events' = Append(events, "on_exit")
    /\ outs' = Append(outs, o)
    /\ raising' = IF o = None THEN raising
                  ELSE Some(Exception(o[1], "on_exit"))
    /\ pc' = "done"
    /\ UNCHANGED excs
    /\ Fixed
    /\ Kept

NextTask ==
    \/ \E o \in Outcomes : on_call(o)
    \/ \E o \in Outcomes : __call__(o)
    \/ \E o \in Outcomes : on_done(o)
    \/ \E o \in Outcomes, inhibit \in BOOLEAN : on_failure(o, inhibit)
    \/ \E o \in Outcomes : on_success(o)
    \/ \E o \in Outcomes : on_exit(o)

SpecTask == InitTask /\ [][NextTask]_vars

----------------------------------------------------------------------------
(* Properties of Task.run and AsyncTask.run *)

\* the place of an event in the order of a run
Rank(ev) ==
    CASE ev = "on_call" -> 1
      [] ev = "__call__" -> 2
      [] ev = "on_done" -> 3
      [] ev \in {"on_success", "on_failure"} -> 4
      [] ev = "on_exit" -> 5

Fired(ev) == \E k \in 1..Len(events) : events[k] = ev

\* C19: the events of a run fire in the order on_call, __call__, on_done,
\* on_success or on_failure, on_exit, each at most once, and on_exit fires
\* exactly once, as the last event of every run, whichever step raised.
C19_EventsInOrder ==
    /\ \A j, k \in 1..Len(events) :
          j < k => Rank(events[j]) < Rank(events[k])
    /\ pc = "done" => events[Len(events)] = "on_exit"
    /\ Fired("on_exit") => pc = "done"

\* a run of an AsyncTask in which __call__ and on_done both raised
C19_Witness ==
    /\ pc = "done" /\ is_async /\ Len(excs) = 2
    /\ events = <<"on_call", "__call__", "on_done", "on_failure", "on_exit">>

\* the run is over and no event raised: what was raised, __call__ raised
HooksReturned ==
    /\ pc = "done" /\ Len(events) = 5
    /\ \A k \in 1..Len(excs) : excs[k].by = "__call__"
    /\ raising # None => raising[1].by = "__call__"

\* C20: Task.run follows the table of failure scenarios: no exception
\* gives a success and nothing raised; an exception E gives a failure,
\* raised if and only if raise_exc, when ignore_exc is empty, and a
\* success with nothing raised when E is in ignore_exc, whatever raise_exc.
C20_FailureTable ==
    (HooksReturned /\ ~is_async) =>
        IF excs = <<>> \/ isinstance(excs[1], ignore_exc)
        THEN Fired("on_success") /\ raising = None
        ELSE /\ Fired("on_failure")
             /\ raising = (IF raise_exc THEN Some(excs[1]) ELSE None)

\* what the event ev did in this run: None when it returned (or was not
\* fired), Some(t) when it raised an exception of type t
OutcomeOf(ev) ==
    IF Fired(ev)
    THEN outs[CHOOSE k \in 1..Len(events) : events[k] = ev]
    ELSE None

RaisedBy(ev) == OutcomeOf(ev) # None

\* the run is over and every exception raised in it derives from Exception
Ordinary ==
    /\ pc = "done"
    /\ \A k \in 1..Len(outs) : outs[k] # Some("B")

\* __call__ raised an exception of ignore_exc and on_done returned
IgnoredRun ==
    /\ Ordinary
    /\ RaisedBy("__call__") /\ OutcomeOf("__call__")[1] \in ignore_exc
    /\ ~RaisedBy("on_done")

\* C21: when __call__ raises an exception of ignore_exc and on_done does
\* not raise, on_success and not on_failure is triggered, with that one
\* exception as its argument, and, the handlers returning, the exception
\* is raised out of run if and only if raise_exc.
C21_IgnoredIsSuccess ==
    IgnoredRun =>
        /\ Fired("on_success") /\ ~Fired("on_failure")
        /\ excs = <<Exception(OutcomeOf("__call__")[1], "__call__")>>
        /\ (~RaisedBy("on_success") /\ ~RaisedBy("on_exit")) =>
               raising = (IF raise_exc THEN Some(excs[1]) ELSE None)

C21_Witness ==
    /\ IgnoredRun /\ raise_exc /\ Fired("on_exit")
    /\ ~RaisedBy("on_success") /\ ~RaisedBy("on_exit")
    /\ raising = Some(Exception("E", "__call__"))

\* on_failure, on_success and on_exit returned, when they were fired
HandlersReturned ==
    /\ ~RaisedBy("on_failure") /\ ~RaisedBy("on_success")
    /\ ~RaisedBy("on_exit")

\* C22: with raise_exc False, run raises nothing when on_call, __call__
\* or on_done raised, provided on_failure, on_success and on_exit did not.
C22_NothingRaisedWhenInhibited ==
    (Ordinary /\ HandlersReturned /\ ~raise_exc) =>
        raising = None

\* C23: every run triggers exactly one of on_success and on_failure, and
\* on_exit after it: on_failure when on_call raised, when __call__ raised
\* an exception that is not in ignore_exc, or when on_done raised;
\* on_success otherwise.
C23_OneOfSuccessAndFailure ==
    Ordinary =>
        /\ Fired("on_success") # Fired("on_failure")
        /\ Fired("on_exit")
        /\ Fired("on_failure") <=>
               \/ RaisedBy("on_call")
               \/ /\ RaisedBy("__call__")
                  /\ OutcomeOf("__call__")[1] \notin ignore_exc
               \/ RaisedBy("on_done")

\* __call__ raised an exception that is not in ignore_exc, and on_failure
\* and on_exit returned
FailedRun ==
    /\ Ordinary
    /\ RaisedBy("__call__") /\ OutcomeOf("__call__")[1] \notin ignore_exc
    /\ ~RaisedBy("on_failure") /\ ~RaisedBy("on_exit")

\* the exceptions that __call__ and on_done raised, in that order
RaisedInOrder ==
    <<Exception(OutcomeOf("__call__")[1], "__call__")>>
        \o (IF RaisedBy("on_done")
            THEN <<Exception(OutcomeOf("on_done")[1], "on_done")>>
            ELSE <<>>)

\* C24: when __call__ raises a non-ignored exception E1, on_failure gets
\* exactly (E1), or (E1, E2) when on_done then raises E2; the last of
\* them is raised out of run if raise_exc, and nothing is raised once
\* on_failure has set raise_exc to False.
C24_FailureGetsAllRaised ==
    FailedRun =>
        /\ Fired("on_failure") /\ ~Fired("on_success")
        /\ excs = RaisedInOrder
        /\ raising = (IF raise_exc THEN Some(excs[Len(excs)]) ELSE None)
        /\ inhibited => raising = None

C24_Witness ==
    /\ FailedRun /\ RaisedBy("on_done") /\ raise_exc
    /\ excs = <<Exception("E", "__call__"), Exception("F", "on_done")>>
    /\ raising = Some(excs[2])

C24_Inhibited ==
    FailedRun /\ inhibited /\ Len(excs) = 2 /\ raising = None

----------------------------------------------------------------------------
(* Batch.run: a task run for every unit of the data *)

\* the elements the data generator gives
Elements(n) == [k \in 1..n |-> [item |-> k]]

\* a Python list, told apart from the element it may hold
List(u) == <<[list |-> u]>>

\* Batch.__iter__: list(islice(it, batch_size)) until the list is empty;
\* islice(it, None) takes everything
RECURSIVE Units(_, _)
Units(d, size) ==
    IF d = <<>> THEN <<>>
    ELSE IF size = None THEN <<d>>
    ELSE LET n == Min(size[1], Len(d))
         IN  <<SubSeq(d, 1, n)>> \o Units(SubSeq(d, n + 1, Len(d)), size)

\* unit[0] if self.batch_size == 1 else unit
UnitArgument(unit, size) == IF size = Some(1) THEN <<unit[1]>> ELSE List(unit)

\* the exception e, raised by the task run of unit number u, or by a
\* batch event when u is 0: what "is" tells apart
RaisedIn(e, u) == [type |-> e.type, by |-> e.by, unit |-> u]

\* a Batch with a Task: Batch.__init__ gives the task raise_exc=True and
\* keeps its own raise_exc as batch_raise_exc; then run: exc = []
InitBatch ==
    /\ is_async = FALSE
    /\ ignore_exc \in {{}, {"E"}}
    /\ raise_exc = TRUE
    /\ pc = "" /\ events = <<>> /\ excs = <<>> /\ raising = None
    /\ inhibited = FALSE /\ outs = <<>>
    /\ batch_data \in {Elements(n) : n \in 0..MaxData}
    /\ batch_size \in {None} \cup {Some(n) : n \in 1..MaxData}
    /\ batch_raise_exc \in BOOLEAN
    /\ _batch_suffix = None /\ bpc = "on_batch_call" /\ bidx = 0
    /\ bevents = <<>> /\ bouts = <<>> /\ bexcs = <<>> /\ braising = None
    /\ runs = <<>>
    /\ data = <<>> /\ seed = None
    /\ SplitIdle /\ GhashIdle /\ FastcdcIdle /\ MerkleIdle /\ Idle

\* where control goes when the outer try block of Batch.run is left
AfterBatchTry(r) ==
    IF r = None THEN "else"
    ELSE IF IsException(r[1]) THEN "except"
    ELSE "finally"

\* the for loop at unit number i: the next unit, or the end of the data
Loop(i) ==
    IF i <= Len(Units(batch_data, batch_size)) THEN "for" ELSE "on_batch_done"

\* what Batch.run leaves alone
BatchFixed ==
    UNCHANGED <<batch_data, batch_size, is_async, ignore_exc, cdcVars,
                merkleVars, callableVars, iterVars, asyncVars>>

\* a batch event leaves the task alone
TaskKept ==
    UNCHANGED <<raise_exc, pc, events, excs, raising, inhibited, outs>>

\* self.on_batch_call()
on_batch_call(o) ==
    /\ bpc = "on_batch_call"
    /\ bevents' = Append(bevents, "on_batch_call")
    /\ bouts' = Append(bouts, o)
    /\ braising' = IF o = None THEN None
                   ELSE Some(RaisedIn(Exception(o[1], "on_batch_call"), 0))
    /\ bidx' = 1
    /\ bpc' = IF o = None THEN Loop(1) ELSE AfterBatchTry(braising')
    /\ UNCHANGED <<batch_raise_exc, _batch_suffix, bexcs, runs>>
    /\ BatchFixed
    /\ TaskKept

\* for idx, unit in enumerate(self): the suffix is set and Task.run begins
super_run ==
    /\ bpc = "for"
    /\ _batch_suffix' = Some(bidx - 1)
    /\ pc' = "on_call"
    /\ bpc' = "super.run"
    /\ UNCHANGED <<raise_exc, events, excs, raising, inhibited, outs>>
    /\ UNCHANGED <<batch_raise_exc, bidx, bevents, bouts, bexcs, braising,
                   runs>>
    /\ BatchFixed

\* the unit whose task run Batch.run is at, and what that run was given
Unit == Units(batch_data, batch_size)[bidx]

\* a task run of a unit with every exception taken for an ignored one
super_runAllIgnored ==
    /\ bpc = "super.run" /\ pc = "done"
    /\ _batch_suffix' = None
    /\ runs' = Append(runs, [arg |-> UnitArgument(Unit, batch_size),
                             raised |-> raising])
    /\ pc' = "" /\ events' = <<>> /\ excs' = <<>> /\ outs' = <<>>
    /\ raising' = None /\ inhibited' = FALSE
    /\ bexcs' = IF raising # None /\ IsException(raising[1])
                THEN Append(bexcs, RaisedIn(raising[1], bidx)) ELSE bexcs
    /\ braising' = IF raising # None /\ ~IsException(raising[1])
                   THEN Some(RaisedIn(raising[1], bidx)) ELSE None
    /\ bidx' = bidx + 1
    /\ bpc' = IF braising' = None THEN Loop(bidx + 1) ELSE "on_batch_done"
    /\ UNCHANGED <<raise_exc, batch_raise_exc, bevents, bouts>>
    /\ BatchFixed

\* Task.run is over: except Exception as e: exc.append(e), raise when e is
\* not ignored; finally the suffix is reset; then the next unit
super_runReturned ==
    /\ bpc = "super.run" /\ pc = "done"
    /\ _batch_suffix' = None
    /\ runs' = Append(runs, [arg |-> UnitArgument(Unit, batch_size),
                             raised |-> raising])
    /\ pc' = "" /\ events' = <<>> /\ excs' = <<>> /\ outs' = <<>>
    /\ raising' = None /\ inhibited' = FALSE
    /\ bexcs' = IF raising # None /\ IsException(raising[1])
                THEN Append(bexcs, RaisedIn(raising[1], bidx)) ELSE bexcs
    /\ braising' = IF raising # None
                      /\ (IsException(raising[1])
                              => ~isinstance(raising[1], ignore_exc))
                   THEN Some(RaisedIn(raising[1], bidx)) ELSE None
    /\ bidx' = bidx + 1
    /\ bpc' = IF braising' = None THEN Loop(bidx + 1) ELSE "on_batch_done"
    /\ UNCHANGED <<raise_exc, batch_raise_exc, bevents, bouts>>
    /\ BatchFixed

\* finally: self.on_batch_done()
on_batch_done(o) ==
    /\ bpc = "on_batch_done"
    /\ bevents' = Append(bevents, "on_batch_done")
    /\ bouts' = Append(bouts, o)
    /\ braising' = IF o = None THEN braising
                   ELSE Some(RaisedIn(Exception(o[1], "on_batch_done"), 0))
    /\ bpc' = AfterBatchTry(braising')
    /\ UNCHANGED <<batch_raise_exc, _batch_suffix, bidx, bexcs, runs>>
    /\ BatchFixed
    /\ TaskKept

\* except Exception as e: e is appended unless it is the last of exc; then
\* self.on_batch_failure(*exc), which may set self.batch_raise_exc to False,
\* then raise if self.batch_raise_exc
on_batch_failure(o, inhibit) ==
    /\ bpc = "except"
    /\ bexcs' = IF bexcs = <<>> \/ braising[1] # bexcs[Len(bexcs)]
                THEN Append(bexcs, braising[1]) ELSE bexcs
    /\ bevents' = Append(bevents, "on_batch_failure")
    /\ bouts' = Append(bouts, o)
    /\ batch_raise_exc' = (batch_raise_exc /\ ~inhibit)
    /\ braising' = IF o # None
                   THEN Some(RaisedIn(Exception(o[1], "on_batch_failure"), 0))
                   ELSE IF batch_raise_exc' THEN braising ELSE None
    /\ bpc' = "finally"
    /\ UNCHANGED <<_batch_suffix, bidx, runs>>
    /\ BatchFixed
    /\ TaskKept

\* the else clause raising the first exception of exc
on_batch_successFirst(o) ==
    /\ bpc = "else"
    /\ bevents' = Append(bevents, "on_batch_success")
    /\ bouts' = Append(bouts, o)
    /\ braising' = IF o # None
                   THEN Some(RaisedIn(Exception(o[1], "on_batch_success"), 0))
                   ELSE IF bexcs # <<>> /\ batch_raise_exc
                   THEN Some(bexcs[1]) ELSE None
    /\ bpc' = "finally"
    /\ UNCHANGED <<batch_raise_exc, _batch_suffix, bidx, bexcs, runs>>
    /\ BatchFixed
    /\ TaskKept

\* else: self.on_batch_success(*exc), then raise exc[-1] if exc and
\* batch_raise_exc
on_batch_success(o) ==
    /\ bpc = "else"
    /\ bevents' = Append(bevents, "on_batch_success")
    /\ bouts' = Append(bouts, o)
    /\ braising' = IF o # None
                   THEN Some(RaisedIn(Exception(o[1], "on_batch_success"), 0))
                   ELSE IF bexcs # <<>> /\ batch_raise_exc
                   THEN Some(bexcs[Len(bexcs)]) ELSE None
    /\ bpc' = "finally"
    /\ UNCHANGED <<batch_raise_exc, _batch_suffix, bidx, bexcs, runs>>
    /\ BatchFixed
    /\ TaskKept

\* finally: self.on_batch_exit(); what is in flight then leaves run
on_batch_exit(o) ==
    /\ bpc = "finally"
    /\ bevents' = Append(bevents, "on_batch_exit")
    /\ bouts' = Append(bouts, o)
    /\ braising' = IF o = None THEN braising
                   ELSE Some(RaisedIn(Exception(o[1], "on_batch_exit"), 0))
    /\ bpc' = "done"
    /\ UNCHANGED <<batch_raise_exc, _batch_suffix, bidx, bexcs, runs>>
    /\ BatchFixed
    /\ TaskKept

NextBatch ==
    \/ \E o \in Outcomes : on_batch_call(o)
    \/ super_run
    \/ \E o \in Outcomes : on_call(o)
    \/ \E o \in Outcomes : __call__(o)
    \/ \E o \in Outcomes : on_done(o)
    \/ \E o \in Outcomes, inhibit \in BOOLEAN : on_failure(o, inhibit)
    \/ \E o \in Outcomes : on_success(o)
    \/ \E o \in Outcomes : on_exit(o)
    \/ super_runReturned
    \/ \E o \in Outcomes : on_batch_done(o)
    \/ \E o \in Outcomes, inhibit \in BOOLEAN : on_batch_failure(o, inhibit)
    \/ \E o \in Outcomes : on_batch_success(o)
    \/ \E o \in Outcomes : on_batch_exit(o)

SpecBatch == InitBatch /\ [][NextBatch]_vars

\* the batch run is over and no batch event raised
BatchEventsReturned ==
    /\ bpc = "done"
    /\ \A k \in 1..Len(bouts) : bouts[k] = None

\* the task runs made so far were given the units of the data, in order,
\* and a task steps only inside the one run that Batch.run waits for
RunsInDataOrder ==
    /\ Len(runs) <= Len(Units(batch_data, batch_size))
    /\ \A k \in 1..Len(runs) :
           runs[k].arg = UnitArgument(Units(batch_data, batch_size)[k],
                                      batch_size)
    /\ pc # "" => bpc = "super.run" /\ bidx = Len(runs) + 1

\* task run number k raised an exception that derives from Exception and
\* that ignore_exc does not list
Failing(k) ==
    /\ runs[k].raised # None
    /\ IsException(runs[k].raised[1])
    /\ ~isinstance(runs[k].raised[1], ignore_exc)

\* the exceptions that the first n task runs raised, in order
RECURSIVE RaisedByRuns(_)
RaisedByRuns(n) ==
    IF n = 0 THEN <<>>
    ELSE RaisedByRuns(n - 1)
             \o (IF runs[n].raised # None /\ IsException(runs[n].raised[1])
                 THEN <<RaisedIn(runs[n].raised[1], n)>> ELSE <<>>)

\* C25: Batch.run makes one task run at a time, on the units in data
\* order; once a task run has raised an exception that is not in
\* ignore_exc no later unit is run, on_batch_done, on_batch_failure (with
\* the exceptions raised so far, in order) and on_batch_exit fire in that
\* order, and the exception is raised out of run if and only if
\* batch_raise_exc.
C25_FailingUnitStopsBatch ==
    /\ RunsInDataOrder
    /\ \A k \in 1..Len(runs) :
           Failing(k) =>
               /\ k = Len(runs)
               /\ bpc \notin {"for", "super.run"}
               /\ BatchEventsReturned =>
                      /\ bevents = <<"on_batch_call", "on_batch_done",
                                     "on_batch_failure", "on_batch_exit">>
                      /\ bexcs = RaisedByRuns(k)
                      /\ braising = (IF batch_raise_exc
                                     THEN Some(RaisedIn(runs[k].raised[1], k))
                                     ELSE None)

C25_Witness ==
    /\ BatchEventsReturned /\ batch_raise_exc
    /\ Len(Units(batch_data, batch_size)) = 2 /\ Len(runs) = 1
    /\ Failing(1)
    /\ braising = Some(RaisedIn(Exception("F", "__call__"), 1))

\* a later unit is left out after an ignored exception and a failing one
C25_AfterIgnored ==
    /\ BatchEventsReturned /\ ~batch_raise_exc /\ Len(runs) = 2
    /\ ~Failing(1) /\ Failing(2) /\ Len(bexcs) = 2 /\ braising = None

\* every task run of the batch raised an exception that ignore_exc lists
AllIgnored ==
    /\ BatchEventsReturned
    /\ \A k \in 1..Len(runs) :
           /\ runs[k].raised # None
           /\ isinstance(runs[k].raised[1], ignore_exc)

\* C26: when every task run raises an exception of ignore_exc, every
\* unit is run, in data order, on_batch_success and not on_batch_failure
\* is fired, with one exception per unit in unit order, and the last one
\* is raised out of run if and only if batch_raise_exc.
C26_IgnoredUnitsAllRun ==
    AllIgnored =>
        /\ Len(runs) = Len(Units(batch_data, batch_size))
        /\ RunsInDataOrder
        /\ bevents = <<"on_batch_call", "on_batch_done", "on_batch_success",
                       "on_batch_exit">>
        /\ bexcs = [k \in 1..Len(runs) |-> RaisedIn(runs[k].raised[1], k)]
        /\ braising = (IF batch_raise_exc /\ bexcs # <<>>
                       THEN Some(bexcs[Len(bexcs)]) ELSE None)

C26_Witness ==
    /\ AllIgnored /\ batch_raise_exc /\ Len(runs) = 2
    /\ braising = Some(RaisedIn(Exception("E", "__call__"), 2))

----------------------------------------------------------------------------
(* none.callable: a hook defined in a class, catches in its subclasses *)

\* the most instances made of a class
MaxInstances == 2
\* the most calls of the hook
MaxCalls == 3

\* class Hookable defines the hook my_hook; its subclasses Catching and
\* _NOOP define catches of "my_hook"
Classes == {"Hookable", "Catching", "_NOOP"}

\* the catches that dir() of an instance of cls shows
Catches(cls) ==
    CASE cls = "Hookable" -> {}
      [] cls = "Catching" -> {"my_catch1", "my_catch2"}
      [] cls = "_NOOP" -> {"my_noop_catch"}

\* the hooks and catches among the members of an instance of cls
Members(cls) == {"my_hook"} \cup Catches(cls)

Descriptors == UNION {Members(cls) : cls \in Classes}

Instances == [class : Classes, id : 1..MaxInstances]

\* the classes are defined: each hook and catch has hanging = set() and
\* _owner = None
InitHook ==
    /\ hanging = {}
    /\ _owner = [d \in Descriptors |-> None]
    /\ executed = <<>> /\ calls = <<>>
    /\ data = <<>> /\ seed = None
    /\ SplitIdle /\ GhashIdle /\ FastcdcIdle /\ MerkleIdle /\ TaskIdle
    /\ BatchIdle /\ RetryIdle /\ IterIdle /\ AsyncIdle

\* hook.__get__, reached by getattr(x, name) for each name of dir(x): the
\* hooks and catches of x are bound to x
Bound(owners, x) ==
    [d \in Descriptors |->
        IF d \in Members(x.class) THEN Some(x) ELSE owners[d]]

\* hook.hangup on owner x: the catches of x for this hook join the set
hangup(x) == hanging \cup Catches(x.class)

\* for fn in self.hanging: fn(*args): catch.__call__ in run mode calls its
\* own hangup, binding the members of its owner, then self.fn(owner)
RECURSIVE RunHanging(_, _, _)
RunHanging(order, owners, ran) ==
    IF order = <<>> THEN [owners |-> owners, ran |-> ran]
    ELSE LET fn == Head(order)
             x == owners[fn][1]
         IN  RunHanging(Tail(order), Bound(owners, x),
                        Append(ran, [fn |-> fn, self |-> x]))

\* the orders in which a set can be iterated
Orders(S) ==
    {o \in [1..Cardinality(S) -> S] :
        \A a, b \in 1..Cardinality(S) : a # b => o[a] # o[b]}

\* x.my_hook(): __get__ binds the hook to x, then hook.__call__: hangup,
\* self.fn(x), then every hanging catch
my_hook(x, order) ==
    /\ Len(calls) < MaxCalls
    /\ order \in Orders(hangup(x))
    /\ hanging' = hangup(x)
    /\ LET r == RunHanging(order, Bound(_owner, x),
                           <<[fn |-> "my_hook", self |-> x]>>)
       IN  _owner' = r.owners /\ executed' = r.ran
    /\ calls' = Append(calls, x)
    /\ UNCHANGED <<cdcVars, merkleVars, taskVars, batchVars, retryVars,
                   iterVars, asyncVars>>

NextHook ==
    \E x \in Instances : \E order \in Orders(hangup(x)) : my_hook(x, order)

SpecHook == InitHook /\ [][NextHook]_vars

\* C27: a call of the hook on an instance runs, besides the hook, only
\* catches that the class of that instance defines or inherits, whatever
\* calls were made before on instances of other subclasses.
C27_OnlyOwnCatches ==
    calls # <<>> =>
        \A k \in 1..Len(executed) :
            executed[k].fn \in Members(calls[Len(calls)].class)

----------------------------------------------------------------------------
(* none.callable: retry and aretry, one invocation of fn at a time *)

\* the largest attempts argument
MaxAttempts == 3

\* what the wrapper gives back: the value of an invocation of fn (the
\* invocation's number stands for it, 0 for None), or an exception
Value(v) == Some([returned |-> v])
Raise(e) == Some([raised |-> e])

\* retry(*exception, attempts=n), or aretry, and a call of the wrapper:
\* self._loop = range(attempts); _exc = None
InitRetry ==
    /\ attempts \in 0..MaxAttempts
    /\ exception \in SUBSET ExcTypes
    /\ is_async \in BOOLEAN
    /\ loop_i = 0 /\ _exc = None /\ invocations = <<>> /\ result = None
    /\ rpc = (IF attempts > 0 THEN "loop" ELSE "after")
    /\ ignore_exc = {} /\ raise_exc = FALSE /\ pc = ""
    /\ events = <<>> /\ excs = <<>> /\ raising = None
    /\ inhibited = FALSE /\ outs = <<>>
    /\ data = <<>> /\ seed = None
    /\ SplitIdle /\ GhashIdle /\ FastcdcIdle /\ MerkleIdle
    /\ BatchIdle /\ HookIdle /\ IterIdle /\ AsyncIdle

\* where the for loop goes after value number i of self._loop
ForLoop(i) == IF i < attempts THEN "loop" ELSE "after"

RetryFixed ==
    UNCHANGED <<attempts, exception, cdcVars, merkleVars, taskVars,
                batchVars, hookVars, iterVars, asyncVars>>

\* the loop body with _exc keeping the first exception caught
fnKeepsFirst(o) ==
    /\ rpc = "loop"
    /\ loop_i' = loop_i + 1
    /\ invocations' = Append(invocations, o)
    /\ IF o = None
       THEN /\ result' = Value(loop_i')
            /\ _exc' = None /\ rpc' = "done"
       ELSE LET e == Exception(o[1], loop_i')
            IN  IF isinstance(e, exception)
                THEN /\ _exc' = (IF _exc = None THEN Some(e) ELSE _exc)
                     /\ rpc' = ForLoop(loop_i')
                     /\ result' = result
                ELSE /\ result' = Raise(e)
                     /\ _exc' = None /\ rpc' = "done"
    /\ RetryFixed

\* for i in self._loop: _exc = None; try: return fn(*args, **kwargs);
\* except self.exception as e: _exc = e
fn(o) ==
    /\ rpc = "loop"
    /\ loop_i' = loop_i + 1
    /\ invocations' = Append(invocations, o)
    /\ IF o = None
       THEN /\ result' = Value(loop_i')
            /\ _exc' = None /\ rpc' = "done"
       ELSE LET e == Exception(o[1], loop_i')
            IN  IF isinstance(e, exception)
                THEN /\ _exc' = Some(e)
                     /\ rpc' = ForLoop(loop_i')
                     /\ result' = result
                ELSE /\ result' = Raise(e)
                     /\ _exc' = None /\ rpc' = "done"
    /\ RetryFixed

\* after the loop: if _exc: raise _exc; else the wrapper returns None
Exhausted ==
    /\ rpc = "after"
    /\ result' = (IF _exc # None THEN Raise(_exc[1]) ELSE Value(0))
    /\ rpc' = "done"
    /\ UNCHANGED <<loop_i, _exc, invocations>>
    /\ RetryFixed

NextRetry ==
    \/ \E o \in Outcomes : fn(o)
    \/ Exhausted

SpecRetry == InitRetry /\ [][NextRetry]_vars

\* invocation number k of fn raised an exception that the decorator lists
Retried(k) == invocations[k] # None /\ invocations[k][1] \in exception

\* C28: with attempts = n >= 1, fn is invoked at most n times, and again
\* only after an invocation that raised a listed exception; the wrapper
\* returns the value of the first invocation that returns, raises an
\* unlisted exception at once, and after n invocations that raised listed
\* exceptions it raises the exception of the n-th.
C28_RetryAtMostAttempts ==
    attempts >= 1 =>
        LET n == Len(invocations)
        IN  /\ n <= attempts
            /\ \A k \in 1..(n - 1) : Retried(k)
            /\ rpc = "done" =>
                   /\ n >= 1
                   /\ Retried(n) => n = attempts
                   /\ result = (IF invocations[n] = None THEN Value(n)
                                ELSE Raise(Exception(invocations[n][1], n)))

C28_Witness ==
    /\ rpc = "done" /\ attempts = 3 /\ Len(invocations) = 3
    /\ \A k \in 1..3 : Retried(k)
    /\ invocations[1] # invocations[3]
    /\ result = Raise(Exception(invocations[3][1], 3))

\* the wrapper returns what the second invocation returned
C28_SecondReturned ==
    /\ rpc = "done" /\ attempts = 3 /\ Len(invocations) = 2
    /\ Retried(1) /\ result = Value(2)

----------------------------------------------------------------------------
(* none.collection.i and none.collection.a: xlast and onexlast.  A call
   of __next__ is one step; a call of __anext__ is suspended wherever it
   awaits the underlying iterator, and another call may begin meanwhile *)

\* the longest iterable
MaxItems == 4

\* the most calls of __anext__ suspended at a time
MaxInFlight == 2

\* the iterables: every list of 1s and 2s of at most MaxItems elements
RECURSIVE Lists(_)
Lists(n) ==
    IF n = 0 THEN {<<>>}
    ELSE Lists(n - 1)
            \cup {Append(l, x) : l \in {m \in Lists(n - 1) : Len(m) = n - 1},
                                 x \in {1, 2}}

\* xlast(iterable) or onexlast(iterable), of none.collection.i or, when
\* is_async, of none.collection.a: _it = iter(iterable), _next = missing
InitIter ==
    /\ iterable \in Lists(MaxItems)
    /\ kind \in {"xlast", "onexlast"}
    /\ is_async \in BOOLEAN
    /\ source = iterable
    /\ onexlast_next = None /\ xlast_next = None
    /\ returned = <<>> /\ stopped = FALSE
    /\ nested = <<>> /\ inflight = <<>> /\ overlapped = FALSE
    /\ ignore_exc = {} /\ raise_exc = FALSE /\ pc = ""
    /\ events = <<>> /\ excs = <<>> /\ raising = None
    /\ inhibited = FALSE /\ outs = <<>>
    /\ data = <<>> /\ seed = None
    /\ SplitIdle /\ GhashIdle /\ FastcdcIdle /\ MerkleIdle
    /\ BatchIdle /\ HookIdle /\ RetryIdle /\ AsyncIdle

IterFixed ==
    UNCHANGED <<iterable, kind, cdcVars, merkleVars, taskVars, batchVars,
                callableVars, asyncVars>>

\* i.xlast.__next__: if self._next is missing: self._next =
\* next(self._it); current, self._next = self._next, next(self._it);
\* return current.
\* next raises StopIteration when the underlying iterator is exhausted
xlast__next__ ==
    /\ ~is_async
    /\ ~stopped
    /\ kind = "xlast" \/ (kind = "onexlast" /\ onexlast_next # None)
    /\ LET fill == xlast_next = None /\ source # <<>>
           nxt == IF fill THEN Some(Head(source)) ELSE xlast_next
           src == IF fill THEN Tail(source) ELSE source
       IN  IF nxt = None \/ src = <<>>
           THEN /\ stopped' = TRUE
                /\ xlast_next' = nxt /\ source' = src
                /\ returned' = returned
           ELSE /\ returned' = Append(returned, nxt[1])
                /\ xlast_next' = Some(Head(src)) /\ source' = Tail(src)
                /\ stopped' = FALSE
    /\ UNCHANGED <<onexlast_next, nested, inflight, overlapped>>
    /\ IterFixed

\* onexlast.__next__ with the iterator wrapped before its first element
\* is taken
onexlast__next__Wrapped ==
    /\ ~is_async
    /\ ~stopped
    /\ kind = "onexlast" /\ onexlast_next = None
    /\ IF Len(source) < 2
       THEN /\ stopped' = TRUE
            /\ UNCHANGED <<onexlast_next, xlast_next, source, returned>>
       ELSE /\ onexlast_next' = Some(Head(source))
            /\ returned' = Append(returned, Head(source))
            /\ xlast_next' = Some(source[2])
            /\ source' = Tail(Tail(source))
            /\ stopped' = FALSE
    /\ UNCHANGED <<nested, inflight, overlapped>>
    /\ IterFixed

\* i.onexlast.__next__, first call: self._next, self._it =
\* next(self._it), xlast(self._it); return self._next. Later calls are
\* next(self._it), the __next__ of xlast
onexlast__next__ ==
    /\ ~is_async
    /\ ~stopped
    /\ kind = "onexlast" /\ onexlast_next = None
    /\ IF source = <<>>
       THEN /\ stopped' = TRUE
            /\ UNCHANGED <<onexlast_next, source, returned>>
       ELSE /\ onexlast_next' = Some(Head(source))
            /\ returned' = Append(returned, Head(source))
            /\ source' = Tail(source)
            /\ stopped' = FALSE
    /\ UNCHANGED <<xlast_next, nested, inflight, overlapped>>
    /\ IterFixed

\* a frame of a call of __anext__ that is suspended: the object it is
\* the __anext__ of (0 for the onexlast, k for the k-th xlast), the await
\* it is at, and its local current
Frame(k, at, cur) == [w |-> k, pc |-> at, current |-> cur]

\* the xlast objects there are, innermost first: the _next of each. An
\* onexlast makes one when its first call returns
Wrappers ==
    IF kind = "xlast" \/ onexlast_next # None THEN <<xlast_next>> \o nested
    ELSE <<>>

\* a.xlast.__anext__ of the k-th xlast, down to the await of the
\* underlying iterator: if self._next is missing: await next(self._it),
\* else current is self._next and: await next(self._it). self._it of the
\* first xlast is the underlying iterator, of another the xlast below
RECURSIVE Awaits(_, _)
Awaits(ws, k) ==
    IF k = 0 THEN <<>>
    ELSE Append(Awaits(ws, k - 1),
                Frame(k, IF ws[k] = None THEN "fill" ELSE "advance", ws[k]))

\* a.next gives the item v to the innermost frame of the call st:
\* an xlast that was missing its _next keeps v and awaits the next item;
\* one that had it keeps v and returns its current to the frame above;
\* the first call of the onexlast keeps v, wraps what self._it is by now
\* in a new xlast, and returns v; a later one returns v
RECURSIVE Given(_, _, _)
Given(v, st, ws) ==
    LET f == Head(st)
        kept == [ws EXCEPT ![f.w] = Some(v)]
    IN  CASE f.pc = "first" ->
               [ws |-> Append(ws, None), stack |-> <<>>, out |-> Some(v),
                first |-> TRUE]
          [] f.pc = "later" ->
               [ws |-> ws, stack |-> <<>>, out |-> Some(v), first |-> FALSE]
          [] f.pc = "fill" ->
               [ws |-> kept,
                stack |-> Awaits(kept, f.w - 1)
                              \o <<Frame(f.w, "advance", Some(v))>>
                              \o Tail(st),
                out |-> None, first |-> FALSE]
          [] f.pc = "advance" ->
               IF Tail(st) = <<>>
               THEN [ws |-> kept, stack |-> <<>>, out |-> f.current,
                     first |-> FALSE]
               ELSE Given(f.current[1], Tail(st), kept)

\* s without its element number j
Without(s, j) ==
    [k \in 1..(Len(s) - 1) |-> IF k < j THEN s[k] ELSE s[k + 1]]

\* a call of a.xlast.__anext__ runs up to its first await
xlast__anext__ ==
    /\ is_async
    /\ ~stopped
    /\ kind = "xlast"
    /\ Len(inflight) < MaxInFlight
    /\ inflight' = Append(inflight, Awaits(Wrappers, 1))
    /\ overlapped' = (overlapped \/ inflight # <<>>)
    /\ UNCHANGED <<source, onexlast_next, xlast_next, returned, stopped,
                   nested>>
    /\ IterFixed

\* a call of a.onexlast.__anext__ runs up to its first await: if
\* self._next is missing: await next(self._it) of the underlying
\* iterator; else await next(self._it) of the outermost xlast
onexlast__anext__ ==
    /\ is_async
    /\ ~stopped
    /\ kind = "onexlast"
    /\ Len(inflight) < MaxInFlight
    /\ inflight' =
           Append(inflight,
                  IF onexlast_next = None THEN <<Frame(0, "first", None)>>
                  ELSE Append(Awaits(Wrappers, Len(Wrappers)),
                              Frame(0, "later", None)))
    /\ overlapped' = (overlapped \/ inflight # <<>>)
    /\ UNCHANGED <<source, onexlast_next, xlast_next, returned, stopped,
                   nested>>
    /\ IterFixed

\* a.next: return await anxt(): the underlying iterator resumes the
\* suspended call number j with its next item, or with
\* StopAsyncIteration, which no frame catches; the call goes on to its
\* next await or to its end
await_next(j) ==
    /\ j \in 1..Len(inflight)
    /\ IF source = <<>>
       THEN /\ stopped' = TRUE
            /\ inflight' = Without(inflight, j)
            /\ UNCHANGED <<source, onexlast_next, xlast_next, nested,
                           returned>>
       ELSE LET r == Given(Head(source), inflight[j], Wrappers)
            IN  /\ source' = Tail(source)
                /\ onexlast_next' = IF r.first THEN Some(Head(source))
                                    ELSE onexlast_next
                /\ xlast_next' = Head(r.ws)
                /\ nested' = Tail(r.ws)
                /\ IF r.out = None
                   THEN /\ inflight' = [inflight EXCEPT ![j] = r.stack]
                        /\ returned' = returned
                   ELSE /\ inflight' = Without(inflight, j)
                        /\ returned' = Append(returned, r.out[1])
                /\ stopped' = stopped
    /\ UNCHANGED overlapped
    /\ IterFixed

NextIter ==
    \/ xlast__next__
    \/ onexlast__next__
    \/ xlast__anext__
    \/ onexlast__anext__
    \/ \E j \in 1..MaxInFlight : await_next(j)

SpecIter == InitIter /\ [][NextIter]_vars

\* every element of s but the last, in order
ButLast(s) == [k \in 1..(Len(s) - 1) |-> s[k]]

\* whether p is the beginning of s
IsPrefix(p, s) == Len(p) <= Len(s) /\ p = [k \in 1..Len(p) |-> s[k]]

\* what the iterator is to give for the iterable
Expected ==
    IF kind = "onexlast" /\ Len(iterable) = 1 THEN iterable
    ELSE ButLast(iterable)

\* C29: xlast gives every element of its input but the last, in order,
\* and nothing for an input of length 0 or 1; onexlast gives nothing for
\* an empty input, the sole element of a one-element input, and every
\* element but the last, in order, for a longer input.  The elements are
\* those of an iteration: each call of __anext__ begins when the one
\* before it is over.
C29_AllButLast ==
    ~overlapped =>
        /\ IsPrefix(returned, Expected)
        /\ stopped => /\ returned = Expected
                      /\ kind = "xlast" => returned = xlast(iterable)
                      /\ kind = "onexlast" => returned = onexlast(iterable)

C29_Witness ==
    /\ stopped /\ kind = "onexlast" /\ Len(iterable) = 1
    /\ returned = iterable /\ is_async /\ ~overlapped

\* a longer input loses its last element only
C29_Longer ==
    /\ stopped /\ Len(iterable) = MaxItems /\ Len(returned) = MaxItems - 1

----------------------------------------------------------------------------
(* fastcdc: what one reading iteration yields and what it keeps *)

\* an iteration that read at least one byte yields the chunks of split
\* over the working buffer but the last, and keeps the last one
ReadStep ==
    pos' > pos =>
        LET working == remain \o Slice(data, pos, pos')
            cks == split(working, GearTable, seed)
        IN  /\ out' = out \o Shifted(ButLast(cks), st_idx)
            /\ remain' = cks[Len(cks)][3]

\* C30: in every iteration of fastcdc that read at least one byte, the
\* last chunk of split over the working buffer is kept in the carry-over
\* and not yielded, only the chunks before it are; so no chunk that ends
\* where the buffered data ends is yielded while the stream is read.
C30_LastChunkWithheld ==
    /\ [][ReadStep]_vars
    /\ [](fpc = "reading" => \A k \in 1..Len(out) : out[k][2] < pos)

----------------------------------------------------------------------------
(* fastcdc: the sizes of the carry-over, of the reads and of the chunks *)

\* what holds at every read: the carry-over is shorter than the buffer
\* size, the buffer handed to readinto fills it up, and no chunk yielded
\* is longer than the buffer size
ReadSizes ==
    /\ fpc = "reading" =>
           /\ Len(remain) < GHASH_CHUNK_HI
           /\ buflen = GHASH_CHUNK_HI - Len(remain)
           /\ buflen >= 1
    /\ fpc = "done" => pos = Len(data)
    /\ \A k \in 1..Len(out) : ChunkSize(out[k]) <= GHASH_CHUNK_HI

\* an iteration that read data yields a chunk, and the loop is left only
\* when the stream has no byte left
ReadProgress ==
    /\ pos' > pos => /\ Len(out') > Len(out)
                     /\ Len(remain) + (pos' - pos) <= GHASH_CHUNK_HI
    /\ (fpc = "reading" /\ fpc' = "done") => pos = Len(data)

\* C31: at every read the carry-over is strictly shorter than HI, the
\* read asks for exactly HI - len(carry-over) >= 1 bytes and the working
\* buffer holds at most HI bytes; so a zero-length read is the end of the
\* stream, every iteration that reads yields at least one chunk, and no
\* chunk yielded is longer than HI.
C31_ReadsFillTheBuffer == [][ReadProgress]_vars /\ []ReadSizes

\* a read with a carry-over, after chunks were yielded from short reads
C31_Witness ==
    /\ fpc = "reading" /\ short /\ out # <<>>
    /\ remain # <<>> /\ buflen = GHASH_CHUNK_HI - Len(remain)
    /\ pos < Len(data)

----------------------------------------------------------------------------
(* Termination: fastcdc over the stream, then split over the whole data,
   each generator consumed until it is exhausted *)

NextTerminates ==
    \/ \E n \in 1..GHASH_CHUNK_HI : FastcdcRead(n)
    \/ FastcdcEof
    \/ fpc = "done" /\ SplitNext

\* the consumer resumes fastcdc: a read returns, bytes or none
Resumed ==
    /\ fpc = "reading"
    /\ pos' \in pos..Len(data)
    /\ fpc' \in {"reading", "done"}

\* the consumer resumes split, which yields a chunk
Pulled ==
    /\ fpc = "done" /\ ct_idx # ck_end
    /\ \E end \in ck_start..Len(data) :
           chunks' = Append(chunks, <<ck_start, end,
                                      Slice(data, ck_start, end)>>)

\* a generator that is not exhausted is resumed again
SpecTerminates ==
    /\ InitFastcdc
    /\ [][NextTerminates]_vars
    /\ WF_<<pos, fpc>>(Resumed)
    /\ WF_chunks(Pulled)

\* a find call on a non-empty window moves the cursor on by a byte at
\* least; a read returns a byte at least; no read follows the
\* zero-length one
Advances ==
    /\ (chunks' # chunks /\ win' # <<>>) => ck_start' >= ck_start + 1
    /\ pos' # pos => pos' >= pos + 1 /\ fpc = "reading"
    /\ fpc = "done" => fpc' = "done" /\ out' = out

\* the loop of split is left exactly when the end offset is len(data)
StopsAtEnd ==
    IF chunks = <<>> THEN ~SplitDone
    ELSE SplitDone <=> ck_end = Len(data)

\* C32: split terminates on every finite input: each find call on a
\* non-empty window advances the cursor by at least one byte and the
\* loop stops exactly when the end offset equals len(data); fastcdc
\* terminates after the first zero-length read, after finitely many reads.
C32_Terminates ==
    /\ [][Advances]_vars
    /\ []StopsAtEnd
    /\ <>(fpc = "done" /\ SplitDone)

\* both generators are exhausted after several reads and several chunks
C32_Witness ==
    /\ fpc = "done" /\ SplitDone /\ short
    /\ Len(chunks) >= 2 /\ Len(out) >= 2 /\ ck_end = Len(data)

----------------------------------------------------------------------------
(* Zero-length chunks *)

\* C33: split yields no zero-length chunk for non-empty data, no chunk
\* follows the one that reaches len(data), and for empty data split
\* yields exactly the chunk (0, 0, empty) and stops.
C33_NoEmptyChunk ==
    /\ data # <<>> =>
           /\ \A k \in 1..Len(chunks) : ChunkSize(chunks[k]) >= 1
           /\ \A k \in 1..Len(chunks) - 1 : chunks[k][2] < Len(data)
    /\ data = <<>> =>
           \/ chunks = <<>> /\ ~SplitDone
           \/ chunks = << <<0, 0, <<>>>> >> /\ SplitDone

\* split is exhausted over data cut into several chunks
C33_Witness ==
    /\ SplitDone /\ Len(chunks) >= 2
    /\ chunks[Len(chunks)][2] = Len(data)

\* split is exhausted over empty data
C33_Empty == data = <<>> /\ SplitDone /\ Len(chunks) = 1

\* C34: fastcdc never yields a zero-length chunk, whatever the content
\* and the sizes of the reads, and yields nothing for a stream whose first
\* read returns no byte.
C34_NoEmptyChunkStreamed ==
    /\ \A k \in 1..Len(out) : ChunkSize(out[k]) >= 1
    /\ (fpc = "done" /\ pos = 0) => out = <<>>

\* the stream is exhausted after short reads and several chunks, the last
\* of them from the final split
C34_Witness ==
    /\ fpc = "done" /\ short /\ remain # <<>>
    /\ Len(out) >= 2 /\ pos = Len(data)

\* the first read returned no byte
C34_EmptyStream == fpc = "done" /\ pos = 0 /\ data = <<>>

----------------------------------------------------------------------------
(* The digest operations and the template hash *)

\* a call of digest or hexdigest
Digesting == last'.op \in {"digest", "hexdigest"}

ReadOnlyStep ==
    Digesting =>
        /\ _leaves' = _leaves
        /\ payloads' = payloads
        /\ _hash' = _hash
        /\ twin' = twin
        \* the same call made again gives what it gave
        /\ last' = last => ret' = ret /\ exc' = exc
        \* and hexdigest the hexadecimal form of what digest gave
        /\ (last.op = "digest" /\ last'.op = "hexdigest" /\ last'.i = last.i)
               => /\ exc' = exc
                  /\ exc = "" => ret' = Some(Hex(ret[1]))

\* C35: digest() and hexdigest(), with or without an index, at any point
\* of a sequence of operations, change neither the leaves nor the stored
\* template hash, and two consecutive calls return the same value.
C35_DigestIsReadOnly == [][ReadOnlyStep]_vars

\* the root was asked for, in hexadecimal, over several leaves, after
\* leaves were removed
C35_Witness ==
    /\ last = Call("hexdigest", None) /\ exc = ""
    /\ shrunk /\ Len(_leaves) >= 3
    /\ ret = Some(Hex(DigestRoot(_leaves, _hash)))

\* the caller feeds the hash object it gave: no template moves
FeedStep ==
    last'.op = "hash.update" => _hash' = _hash /\ twin' = twin

\* what the tree computes is what a tree of a fresh hash object computes
FreshTemplate ==
    /\ \A k \in 1..Len(_leaves) :
          _leaves[k] = Hash(<<Byte(0)>> \o payloads[k])
    /\ RootReturned => ret = Some(RootOf(payloads))

\* C36: a tree made of a pre-built hash object holds a template of its
\* own: data fed to the caller's object after the construction changes no
\* leaf digest and no root the tree computes afterwards, and a copy of the
\* tree never shares its template with the original.
C36_TemplateIsIndependent == [][FeedStep]_vars /\ []FreshTemplate

\* the template of the tree that was not given the caller's object stays
\* as it is when the caller feeds that object
CopyKeepsTemplate ==
    last'.op = "hash.update" =>
        /\ instance = "self" => twin' = twin
        /\ instance = "twin" => _hash' = _hash
C36_CopyHasItsOwn == [][CopyKeepsTemplate]_vars

\* the caller has fed its object and the tree has hashed a leaf since
C36_Fed ==
    /\ instance = "self" /\ _hash # HashNew
    /\ last.op = "append" /\ exc = "" /\ twin # None

----------------------------------------------------------------------------
(* AsyncBatch.run: the unit tasks are futures on the event loop.  The    *)
(* loop runs what is ready, the oldest first; a coroutine runs until it *)
(* awaits something that is not over yet, and is ready again when that  *)
(* is over.  The events are taken to return normally; any of them may   *)
(* await.                                                               *)

\* what a unit task raises: nothing, or an exception "except Exception"
\* catches
AsyncOutcomes == {None, Some("E"), Some("F")}

\* an event of the batch (unit 0) or of the task run of a unit
Event(name, u) == [ev |-> name, unit |-> u]

\* the future of a unit
Future(state, e) == [st |-> state, raised |-> e]

\* what the event loop runs: the coroutine of AsyncBatch.run, the task
\* run of unit k, and the callback as_completed adds to the future of
\* unit k
Co(name, k) == [co |-> name, unit |-> k]

Main == Co("run", 0)

\* an AsyncBatch with an AsyncTask and a call of run, which is running:
\* the data source, and whether it awaits between two items
InitAsyncBatch ==
    /\ is_async = TRUE
    /\ ignore_exc \in {{}, {"E"}}
    /\ raise_exc = TRUE
    /\ pc = "" /\ events = <<>> /\ excs = <<>> /\ raising = None
    /\ inhibited = FALSE /\ outs = <<>>
    /\ batch_data \in {Elements(n) : n \in 0..MaxData}
    /\ batch_size \in {None, Some(1)}
    /\ batch_raise_exc \in BOOLEAN
    /\ _batch_suffix = None /\ bpc = "async for" /\ bidx = 0
    /\ bevents = <<>> /\ bouts = <<>> /\ bexcs = <<>> /\ braising = None
    /\ runs = <<>>
    /\ tasks = <<>> /\ suspends \in BOOLEAN /\ completed = <<>>
    /\ done = <<>> /\ ready = <<>> /\ current_task = Some(Main)
    /\ scheduled = <<>> /\ coros = <<>>
    /\ data = <<>> /\ seed = None
    /\ SplitIdle /\ GhashIdle /\ FastcdcIdle /\ MerkleIdle
    /\ HookIdle /\ RetryIdle /\ IterIdle

\* what AsyncBatch.run and its unit tasks leave alone
AsyncFixed ==
    UNCHANGED <<batch_data, batch_size, batch_raise_exc, _batch_suffix,
                bouts, suspends, scheduled, coros, cdcVars, merkleVars,
                taskVars, callableVars, iterVars>>

\* c is to be run by the event loop
IsReady(c) == \E i \in 1..Len(ready) : ready[i] = c

\* c awaits something that is not over
Suspended(c) == current_task # Some(c) /\ ~IsReady(c)

\* the data source, a generator, has not been seen to be exhausted:
\* islice(it, None) has taken nothing yet, or islice(it, 1) has not come
\* back empty
SourceLeft == batch_size # None \/ bidx = 0

\* the coroutine of run is in the data source or in an event, and the
\* task run of a unit in an event or in __call__: where user code awaits
MayAwait(c) ==
    IF c = Main
    THEN \/ bpc = "async for" /\ suspends /\ SourceLeft
         \/ bpc \in {"on_batch_call", "on_batch_done", "on_batch_failure",
                     "on_batch_success", "on_batch_exit"}
    ELSE /\ c.co = "task"
         /\ c.unit \in 1..Len(tasks)
         /\ tasks[c.unit].st \in {"running", "on_exit"}

\* the event loop runs the oldest coroutine that is ready
_run_once ==
    /\ current_task = None
    /\ ready # <<>>
    /\ Head(ready).co # "callback"
    /\ current_task' = Some(Head(ready))
    /\ ready' = Tail(ready)
    /\ UNCHANGED <<bpc, bidx, bevents, bexcs, braising, runs, tasks,
                   completed, done>>
    /\ AsyncFixed

\* the coroutine that runs awaits something that is not over
suspend ==
    /\ current_task # None
    /\ MayAwait(current_task[1])
    /\ current_task' = None
    /\ UNCHANGED <<bpc, bidx, bevents, bexcs, braising, runs, tasks,
                   completed, done, ready>>
    /\ AsyncFixed

\* what c awaits is over: c is ready
wakeup(c) ==
    /\ MayAwait(c)
    /\ Suspended(c)
    /\ ready' = Append(ready, c)
    /\ UNCHANGED <<bpc, bidx, bevents, bexcs, braising, runs, tasks,
                   completed, done, current_task>>
    /\ AsyncFixed

\* tasks = [asyncio.ensure_future(super().run(unit)) async for unit in
\* self]: the data source has given the items of the next unit; its
\* future is made and is ready
ensure_future ==
    /\ current_task = Some(Main)
    /\ bpc = "async for"
    /\ bidx < Len(Units(batch_data, batch_size))
    /\ tasks' = Append(tasks, Future("pending", None))
    /\ ready' = Append(ready, Co("task", Len(tasks) + 1))
    /\ bidx' = bidx + 1
    /\ UNCHANGED <<bpc, bevents, bexcs, braising, runs, completed, done,
                   current_task>>
    /\ AsyncFixed

\* the data source is exhausted and the list is built:
\* await self.on_batch_call()
await_on_batch_call ==
    /\ current_task = Some(Main)
    /\ bpc = "async for"
    /\ bidx = Len(Units(batch_data, batch_size))
    /\ bevents' = Append(bevents, Event("on_batch_call", 0))
    /\ bpc' = "on_batch_call"
    /\ UNCHANGED <<bidx, bexcs, braising, runs, tasks, completed, done,
                   ready, current_task>>
    /\ AsyncFixed

\* the future of unit k runs for the first time: AsyncTask.run begins
\* with await self.on_call()
task_begins(k) ==
    /\ current_task = Some(Co("task", k))
    /\ tasks[k].st = "pending"
    /\ tasks' = [tasks EXCEPT ![k] = Future("running", None)]
    /\ bevents' = Append(bevents, Event("on_call", k))
    /\ UNCHANGED <<bpc, bidx, bexcs, braising, runs, completed, done, ready,
                   current_task>>
    /\ AsyncFixed

\* the task run of unit k goes on to finally: await self.on_exit(), with
\* what __call__ raised in flight: the task was made with raise_exc=True
await_on_exit(k, o) ==
    /\ current_task = Some(Co("task", k))
    /\ tasks[k].st = "running"
    /\ tasks' = [tasks EXCEPT ![k] =
                    Future("on_exit",
                           IF o = None THEN None
                           ELSE Some(RaisedIn(Exception(o[1], "__call__"),
                                              k)))]
    /\ bevents' = Append(bevents, Event("on_exit", k))
    /\ UNCHANGED <<bpc, bidx, bexcs, braising, runs, completed, done, ready,
                   current_task>>
    /\ AsyncFixed

\* as_completed has added its callback to the futures
Watched == bpc \notin {"async for", "on_batch_call"}

\* on_exit has returned: the task run of unit k is over and its future
\* is done: the callback as_completed added to it is to be called soon
task_done(k) ==
    /\ current_task = Some(Co("task", k))
    /\ tasks[k].st = "on_exit"
    /\ tasks' = [tasks EXCEPT ![k] = Future("done", tasks[k].raised)]
    /\ completed' = Append(completed, k)
    /\ ready' = IF Watched THEN Append(ready, Co("callback", k)) ELSE ready
    /\ current_task' = None
    /\ UNCHANGED <<bpc, bidx, bevents, bexcs, braising, runs, done>>
    /\ AsyncFixed

\* the for loop over as_completed(tasks) after n outputs with r in flight:
\* an exception that is not ignored, or the last output, leaves it, and
\* finally: await self.on_batch_done()
ForOutput(n, r) ==
    IF r # None \/ n = Len(tasks) THEN "on_batch_done" ELSE "as_completed"

Triggered(ev, at) ==
    IF at = "on_batch_done" THEN Append(ev, Event("on_batch_done", 0)) ELSE ev

\* on_batch_call has returned: for output in asyncio.as_completed(tasks):
\* the callback of a future that is done is to be called soon, in the
\* order of iteration of the set of the futures; the callback of another
\* is called after it is done
as_completed(order) ==
    /\ current_task = Some(Main)
    /\ bpc = "on_batch_call"
    /\ order \in Orders({completed[i] : i \in 1..Len(completed)})
    /\ ready' = ready \o [i \in 1..Len(order) |-> Co("callback", order[i])]
    /\ bpc' = ForOutput(0, None)
    /\ bevents' = Triggered(bevents, bpc')
    /\ UNCHANGED <<bidx, bexcs, braising, runs, tasks, completed, done,
                   current_task>>
    /\ AsyncFixed

\* the coroutine of run awaits done.get() of an empty queue
Getting == bpc = "as_completed" /\ Suspended(Main)

\* the event loop calls the callback of the future of unit k: the future
\* is put in the queue, and the coroutine that awaits done.get() is ready
_on_completion ==
    /\ current_task = None
    /\ ready # <<>>
    /\ Head(ready).co = "callback"
    /\ done' = Append(done, Head(ready).unit)
    /\ ready' = IF Getting THEN Append(Tail(ready), Main) ELSE Tail(ready)
    /\ UNCHANGED <<bpc, bidx, bevents, bexcs, braising, runs, tasks,
                   completed, current_task>>
    /\ AsyncFixed

\* await output, of an empty queue: the coroutine of run awaits done.get()
_wait_for_one ==
    /\ current_task = Some(Main)
    /\ bpc = "as_completed"
    /\ Len(runs) = Len(done)
    /\ current_task' = None
    /\ UNCHANGED <<bpc, bidx, bevents, bexcs, braising, runs, tasks,
                   completed, done, ready>>
    /\ AsyncFixed

\* await output: the next future of the queue gives its result, or raises
\* its exception: exc.append(e), and raise unless e is ignored
await_output ==
    /\ current_task = Some(Main)
    /\ bpc = "as_completed"
    /\ Len(runs) < Len(done)
    /\ LET k == done[Len(runs) + 1]
           e == tasks[k].raised
       IN  /\ runs' = Append(runs, [unit |-> k, raised |-> e])
           /\ bexcs' = IF e = None THEN bexcs ELSE Append(bexcs, e[1])
           /\ braising' = IF e # None /\ ~isinstance(e[1], ignore_exc)
                          THEN e ELSE None
    /\ bpc' = ForOutput(Len(runs'), braising')
    /\ bevents' = Triggered(bevents, bpc')
    /\ UNCHANGED <<bidx, tasks, completed, done, ready, current_task>>
    /\ AsyncFixed

\* on_batch_done has returned: except Exception: on_batch_failure(*exc),
\* or else: on_batch_success(*exc)
await_on_batch_done ==
    /\ current_task = Some(Main)
    /\ bpc = "on_batch_done"
    /\ bpc' = IF braising # None THEN "on_batch_failure"
              ELSE "on_batch_success"
    /\ bevents' = Append(bevents, Event(bpc', 0))
    /\ UNCHANGED <<bidx, bexcs, braising, runs, tasks, completed, done,
                   ready, current_task>>
    /\ AsyncFixed

\* on_batch_failure or on_batch_success has returned: raise, or raise
\* exc[-1], if batch_raise_exc; finally: await self.on_batch_exit()
await_on_batch_exit ==
    /\ current_task = Some(Main)
    /\ bpc \in {"on_batch_failure", "on_batch_success"}
    /\ braising' = IF ~batch_raise_exc THEN None
                   ELSE IF bpc = "on_batch_failure" \/ bexcs = <<>>
                   THEN braising
                   ELSE Some(bexcs[Len(bexcs)])
    /\ bevents' = Append(bevents, Event("on_batch_exit", 0))
    /\ bpc' = "on_batch_exit"
    /\ UNCHANGED <<bidx, bexcs, runs, tasks, completed, done, ready,
                   current_task>>
    /\ AsyncFixed

\* on_batch_exit has returned: run returns, or raises what is in flight;
\* the event loop goes on with what is left
run_over ==
    /\ current_task = Some(Main)
    /\ bpc = "on_batch_exit"
    /\ bpc' = IF braising = None THEN "returned" ELSE "raised"
    /\ current_task' = None
    /\ UNCHANGED <<bidx, bevents, bexcs, braising, runs, tasks, completed,
                   done, ready>>
    /\ AsyncFixed

NextAsyncBatch ==
    \/ _run_once
    \/ suspend
    \/ \E k \in 0..MaxData + 1 :
           wakeup(IF k = 0 THEN Main ELSE Co("task", k))
    \/ ensure_future
    \/ await_on_batch_call
    \/ \E k \in 1..MaxData + 1 : task_begins(k)
    \/ \E k \in 1..MaxData + 1, o \in AsyncOutcomes : await_on_exit(k, o)
    \/ \E k \in 1..MaxData + 1 : task_done(k)
    \/ \E order \in Orders({completed[i] : i \in 1..Len(completed)}) :
           as_completed(order)
    \/ _on_completion
    \/ _wait_for_one
    \/ await_output
    \/ await_on_batch_done
    \/ await_on_batch_exit
    \/ run_over

SpecAsyncBatch == InitAsyncBatch /\ [][NextAsyncBatch]_vars

\* event number j is the trigger of the batch event name
BatchEvent(j, name) == bevents[j] = Event(name, 0)

\* C37: in AsyncBatch.run, on_batch_call is triggered before any unit
\* task begins executing (before on_call of any unit), also when the data
\* source suspends to the event loop between items.
C37_BatchCallBeforeUnits ==
    \A j \in 1..Len(bevents) :
        bevents[j].unit # 0 =>
            \E i \in 1..(j - 1) : BatchEvent(i, "on_batch_call")

\* the same, of a data source that never awaits
C37_WhenSourceNeverAwaits == ~suspends => C37_BatchCallBeforeUnits

\* unit tasks have begun, and on_batch_call was triggered since
C37_Begun ==
    /\ ~suspends /\ bpc = "as_completed"
    /\ Len(tasks) >= 2 /\ \A k \in 1..Len(tasks) : tasks[k].st # "pending"

\* the events after which every unit task is over
AfterUnits == {"on_batch_done", "on_batch_failure", "on_batch_exit",
               "returned", "raised"}

\* C38: in AsyncBatch.run, once on_batch_done is triggered (and then
\* on_batch_failure and on_batch_exit, and when run returns or raises), no
\* unit task made for the batch is pending or running, with or without an
\* error.
C38_DoneAfterAllUnits ==
    bpc \in AfterUnits => \A k \in 1..Len(tasks) : tasks[k].st = "done"

\* the same, of a batch none of whose unit tasks raised an exception that
\* is not ignored
C38_WhenNothingRaised ==
    (\A k \in 1..Len(tasks) :
        tasks[k].raised = None \/ isinstance(tasks[k].raised[1], ignore_exc))
    => C38_DoneAfterAllUnits

\* run returned after every unit task was over, one with an ignored
\* exception
C38_AllOver ==
    /\ bpc = "returned" /\ Len(tasks) >= 2 /\ bexcs # <<>>
    /\ \A k \in 1..Len(tasks) : tasks[k].st = "done"

----------------------------------------------------------------------------
(* none.callable: asynchook and asynccatch.  The instances of one class  *)
(* await their hook on one event loop; a catch is a coroutine the hook   *)
(* hands to asyncio.ensure_future, started by the loop later on.         *)

\* the instances of the class with the catches
AsyncInstances == {x \in Instances : x.class = "Catching"}

\* the classes are defined and the event loop runs
InitAsyncHook ==
    /\ hanging = {}
    /\ _owner = [d \in Descriptors |-> None]
    /\ executed = <<>> /\ calls = <<>>
    /\ scheduled = <<>> /\ coros = <<>>
    /\ tasks = <<>> /\ suspends = FALSE /\ completed = <<>> /\ done = <<>>
    /\ ready = <<>> /\ current_task = None
    /\ is_async = TRUE
    /\ ignore_exc = {} /\ raise_exc = FALSE /\ pc = ""
    /\ events = <<>> /\ excs = <<>> /\ raising = None
    /\ inhibited = FALSE /\ outs = <<>>
    /\ data = <<>> /\ seed = None
    /\ SplitIdle /\ GhashIdle /\ FastcdcIdle /\ MerkleIdle
    /\ BatchIdle /\ RetryIdle /\ IterIdle

\* a function run by a call of the hook: what it was given as self, and
\* the number of the call of the hook it belongs to
Ran(fn_name, x, n) == [fn |-> fn_name, self |-> x, call |-> n]

\* the coroutine of a call of the hook: where it is, and the order in
\* which its gather went over the hanging catches
Coro(where, order) == [at |-> where, order |-> order]

\* the event loop is between two catches that one gather made: it starts
\* the second right after the first, before any other coroutine runs
Gathered ==
    /\ scheduled # <<>>
    /\ executed # <<>>
    /\ executed[Len(executed)].fn # "my_hook"
    /\ executed[Len(executed)].call = Head(scheduled).call

\* x.my_hook(): __get__ binds the hook to x and asynchook.__call__ makes
\* a coroutine, which does nothing before it is awaited or made a task
__get__(x) ==
    /\ ~Gathered
    /\ Len(calls) < MaxCalls
    /\ _owner' = [_owner EXCEPT !["my_hook"] = Some(x)]
    /\ calls' = Append(calls, x)
    /\ coros' = Append(coros, Coro("made", <<>>))
    /\ UNCHANGED <<hanging, executed, scheduled, loopVars, cdcVars,
                   merkleVars, taskVars, batchVars, retryVars, iterVars>>

\* the coroutine of call n starts: asynchook.__call__: hangup on the
\* owner the hook has by now, then await self.fn(owner)
asynchook__call__(n) ==
    /\ ~Gathered
    /\ n \in 1..Len(coros)
    /\ coros[n].at = "made"
    /\ LET x == _owner["my_hook"][1]
       IN  /\ hanging' = hangup(x)
           /\ _owner' = Bound(_owner, x)
           /\ executed' = Append(executed, Ran("my_hook", x, n))
    /\ coros' = [coros EXCEPT ![n] = Coro("fn", <<>>)]
    /\ UNCHANGED <<calls, scheduled, loopVars, cdcVars, merkleVars, taskVars,
                   batchVars, retryVars, iterVars>>

\* the function of the hook has returned to call n: gather over
\* fn(*args) of every hanging catch: asynccatch.__call__ makes a future of
\* asynchook.__call__ of the catch, which the event loop starts later.
\* The set hanging is iterated in the order it was before
gather(n, order) ==
    /\ ~Gathered
    /\ n \in 1..Len(coros)
    /\ coros[n].at = "fn"
    /\ order \in Orders(hanging)
    /\ \A m \in 1..Len(coros) :
          coros[m].at = "gather" => coros[m].order = order
    /\ scheduled' = scheduled \o
           [k \in 1..Len(order) |-> [fn |-> order[k], call |-> n]]
    /\ coros' = [coros EXCEPT ![n] = Coro("gather", order)]
    /\ UNCHANGED <<hanging, _owner, executed, calls, loopVars, cdcVars,
                   merkleVars, taskVars, batchVars, retryVars, iterVars>>

\* the event loop starts the oldest future: asynchook.__call__ of the
\* catch: hangup binds the members of the owner the catch has now, then
\* await self.fn(*self._args)
catch_starts ==
    /\ scheduled # <<>>
    /\ LET t == Head(scheduled)
           x == _owner[t.fn][1]
       IN  /\ _owner' = Bound(_owner, x)
           /\ executed' = Append(executed, Ran(t.fn, x, t.call))
    /\ scheduled' = Tail(scheduled)
    /\ UNCHANGED <<hanging, calls, coros, loopVars, cdcVars, merkleVars,
                   taskVars, batchVars, retryVars, iterVars>>

NextAsyncHook ==
    \/ \E x \in AsyncInstances : __get__(x)
    \/ \E n \in 1..MaxCalls : asynchook__call__(n)
    \/ \E n \in 1..MaxCalls : \E order \in Orders(hanging) : gather(n, order)
    \/ catch_starts

SpecAsyncHook == InitAsyncHook /\ [][NextAsyncHook]_vars

\* C39: when the hooks of two instances of one class run concurrently on
\* one event loop, every catch triggered by the hook of instance X is
\* called with X as its self, once for each triggering: a call of the hook
\* on another instance in between never redirects a pending catch.
C39_CatchKeepsSelf ==
    /\ \A k \in 1..Len(executed) :
          executed[k].fn # "my_hook" =>
              \E j \in 1..(k - 1) :
                  /\ executed[j].fn = "my_hook"
                  /\ executed[j].call = executed[k].call
                  /\ executed[j].self = executed[k].self
    /\ \A j, k \in 1..Len(executed) :
          (executed[j].fn = executed[k].fn
              /\ executed[j].call = executed[k].call) => j = k

\* the same, while one instance only has called its hook
C39_OneInstance ==
    (\A i, j \in 1..Len(calls) : calls[i] = calls[j]) => C39_CatchKeepsSelf

\* an instance has called its hook again and every catch has run
C39_OneInstanceTwice ==
    /\ Len(calls) = 2 /\ calls[1] = calls[2] /\ scheduled = <<>>
    /\ Len(executed) = 6

====
